---- MODULE Spec2Model ----
(***************************************************************************)
(* Model of the eat-api menu extraction engine (src/src/menu_parser.py,    *)
(* src/src/main.py).  Dates are proleptic Gregorian ordinals as in         *)
(* Python's datetime (0001-01-01 = 1); strings that the code inspects      *)
(* character by character are sequences of one-character strings; prices   *)
(* are in cents.                                                           *)
(***************************************************************************)
EXTENDS Integers, Sequences, FiniteSets, TLC

VARIABLES
    gd_args,      \* arguments of the last MenuParser.get_date call, <<>> before it
    gd_result,    \* its outcome: [raised |-> BOOLEAN, date |-> ordinal]
    pl_cls,       \* the parser class _parse_label was called on, None before the call
    pl_str,       \* its labels_str argument
    pl_result,    \* the label set it returned
    st_canteen,   \* the canteen get_menu_parsing_strategy was called with, None before
    st_result,    \* its outcome: the class of the returned parser, None, or an exception
    m_pc,         \* position of main()
    m_args,       \* the argparse Namespace main() works on
    m_exit,       \* how main() ended: None, the sys.exit message or the exception
    m_parsed,     \* whether main() has called parser.parse
    sw_canteen,   \* the canteen __parse_dishes was called for, None before the call
    sw_block,     \* what the xpath queries found in the day block (six arrays)
    sw_names,     \* its local dish_names after make_duplicates_unique
    sw_types,     \* its local dish_types after the forward fill
    sw_dishes,    \* the list of Dish objects it returned
    pd_parser,    \* the parser class whose dish construction ran, None before
    pd_input,     \* what it was given
    pd_error,     \* the exception it raised, "" when it returned
    pd_dishes,    \* the Dish objects it built
    r_parser,     \* the parser class whose parse (or get_menus) runs, None before
    r_pc,         \* its position: "start", "loop", "returned" or "raised"
    r_input,      \* what the fetches deliver to it
    r_i,          \* the index of the unit its loop is at
    r_menus,      \* its local menus: a mapping from the date key to the Menu
    r_result,     \* what it returned: <<>> for None, else <<menus>>
    r_error,      \* the exception that left it, "" when none
    r_log,        \* the exceptions it caught, in order
    tr_pc,        \* position of translate.main or of a caller of the Translator
    tr_input,     \* the input files and options of translate.main, None before
    tr_i,         \* the index of the file its loop is at
    tr_cache,     \* translator.cache: a mapping from text to translation
    tr_sent,      \* the texts sent to the translation service, call by call
    tr_last,      \* <<>>, or <<the call of translate_file: its input and what it wrote>>
    tr_files,     \* the output files written, in order
    tr_disk,      \* the cache file: <<>> when absent, else <<its content>>
    tr_error      \* the exception that left translate.main or a call, "" when none

stwVars   == <<sw_canteen, sw_block, sw_names, sw_types, sw_dishes>>
labelVars == <<pl_cls, pl_str, pl_result>>
dateVars  == <<gd_args, gd_result>>
mainVars  == <<st_canteen, st_result, m_pc, m_args, m_exit, m_parsed>>
dishVars  == <<pd_parser, pd_input, pd_error, pd_dishes>>
runVars   == <<r_parser, r_pc, r_input, r_i, r_menus, r_result, r_error, r_log>>
trVars    == <<tr_pc, tr_input, tr_i, tr_cache, tr_sent, tr_last, tr_files, tr_disk, tr_error>>

vars == <<gd_args, gd_result, pl_cls, pl_str, pl_result,
          st_canteen, st_result, m_pc, m_args, m_exit, m_parsed,
          sw_canteen, sw_block, sw_names, sw_types, sw_dishes,
          pd_parser, pd_input, pd_error, pd_dishes,
          r_parser, r_pc, r_input, r_i, r_menus, r_result, r_error, r_log,
          tr_pc, tr_input, tr_i, tr_cache, tr_sent, tr_last, tr_files, tr_disk, tr_error>>

\* ------------------------------------------------------------------------
\* Bounds of the model
\* ------------------------------------------------------------------------
MinYear == 2015
MaxYear == 2027
MaxLabelStrLen == 4      \* longest raw marker string given to _parse_label
MaxMarkerLen == 3        \* longest allergen marker string of a single dish
MaxNames == 4            \* most dish titles in a day block
MaxAttrs == 2            \* most entries of each other array of a day block
MaxTitleLen == 4         \* longest title column of a CSV row
MaxDishStrLen == 5       \* longest dish string of the single-page PDF text
MaxLineLen == 4          \* longest priced line of the weekly PDF text
MaxBlocks == 3           \* most day blocks of a rendered page
MaxYearDigits == 4       \* most digits of the year of a PDF filename
MaxWeeks == 3            \* most CSV files the server holds from the current week on
MaxDays == 3             \* most days the JSON API lists
MaxRows == 4             \* most rows of a CSV file
MaxTextLines == 5        \* most relevant lines of a weekly PDF text
MaxDayLines == 2         \* most lines of the text of a day of the single-page PDF
MaxTrDishes == 2         \* most dishes of a day of a file to translate
MaxTrDays == 2           \* most days of a week of a file to translate
MaxCalls == 3            \* most calls made on one Translator
MaxFiles == 2            \* most JSON files of the input directory of translate.main

\* ------------------------------------------------------------------------
\* Generic helpers
\* ------------------------------------------------------------------------
None == "None"

\* Python's str(int) / "%d" for a natural number: its decimal digits.
RECURSIVE Digits(_)
Digits(n) == IF n < 10 THEN <<n>> ELSE Digits(n \div 10) \o <<n % 10>>

\* Python's int(str) on a digit sequence.
RECURSIVE IntOf(_)
IntOf(ds) == IF ds = <<>> THEN 0
             ELSE (10 * IntOf(SubSeq(ds, 1, Len(ds) - 1))) + ds[Len(ds)]

\* ------------------------------------------------------------------------
\* datetime.date arithmetic used by strptime and isocalendar
\* ------------------------------------------------------------------------
IsLeap(y) == y % 4 = 0 /\ (y % 100 # 0 \/ y % 400 = 0)

DaysBeforeYear(y) ==
    LET p == y - 1 IN (p * 365) + (p \div 4) - (p \div 100) + (p \div 400)

DaysInMonth(y, m) ==
    IF m = 2 THEN (IF IsLeap(y) THEN 29 ELSE 28)
    ELSE IF m \in {4, 6, 9, 11} THEN 30 ELSE 31

RECURSIVE DaysBeforeMonth(_, _)
DaysBeforeMonth(y, m) ==
    IF m = 1 THEN 0 ELSE DaysBeforeMonth(y, m - 1) + DaysInMonth(y, m - 1)

\* date(y, m, d).toordinal()
Ymd2Ord(y, m, d) == DaysBeforeYear(y) + DaysBeforeMonth(y, m) + d

\* date.fromordinal(n).year
YearOfOrd(n) ==
    CHOOSE y \in (n \div 366)..((n \div 365) + 1) :
        DaysBeforeYear(y) < n /\ n <= DaysBeforeYear(y + 1)

\* date.isoweekday(): Monday = 1 .. Sunday = 7
IsoWeekday(n) == IF n % 7 = 0 THEN 7 ELSE n % 7

\* datetime._isoweek1monday(year)
IsoWeek1Monday(y) ==
    LET firstday     == Ymd2Ord(y, 1, 1)
        firstweekday == (firstday + 6) % 7
        week1monday  == firstday - firstweekday
    IN IF firstweekday > 3 THEN week1monday + 7 ELSE week1monday

\* date.isocalendar() of the date with ordinal n: <<ISO year, ISO week, ISO weekday>>
IsoCalendar(n) ==
    LET year == YearOfOrd(n)
        w1   == IsoWeek1Monday(year)
        week == (n - w1) \div 7
        day  == (n - w1) % 7
    IN IF n < w1
       THEN LET w0 == IsoWeek1Monday(year - 1)
            IN <<year - 1, ((n - w0) \div 7) + 1, ((n - w0) % 7) + 1>>
       ELSE IF week >= 52 /\ n >= IsoWeek1Monday(year + 1)
            THEN <<year + 1, 1, day + 1>>
            ELSE <<year, week + 1, day + 1>>

\* _strptime._calc_julian_from_V followed by the julian <= 0 fix-up and
\* date.fromordinal((julian - 1) + date(year, 1, 1).toordinal())
CalcJulianFromV(iso_year, iso_week, iso_weekday) ==
    LET correction == IsoWeekday(Ymd2Ord(iso_year, 1, 4)) + 3
        ordinal    == (iso_week * 7) + iso_weekday - correction
    IN IF ordinal < 1
       THEN <<iso_year - 1,
              ordinal + Ymd2Ord(iso_year, 1, 1) - Ymd2Ord(iso_year - 1, 1, 1)>>
       ELSE <<iso_year, ordinal>>

\* The directives of date_format = "%G-W%V-%u" as regular expressions over the
\* digits that date_str = "%d-W%d-%d" produced:
\*   %G  \d\d\d\d       %V  5[0-3]|0[1-9]|[1-4]\d|\d       %u  [1-7]
MatchesG(ds) == Len(ds) = 4
MatchesV(ds) == Len(ds) = 1 \/ (Len(ds) = 2 /\ IntOf(ds) \in 10..53)
MatchesU(ds) == Len(ds) = 1 /\ ds[1] \in 1..7

Raised(exc) == [raised |-> TRUE, exc |-> exc, date |-> 0]
Returned(n) == [raised |-> FALSE, exc |-> None, date |-> n]

\* A slip the week arithmetic invites: week 1 taken as the week of 1 January.
get_date_naive(year, week_number, day) ==
    Returned(Ymd2Ord(year, 1, 1) - IsoWeekday(Ymd2Ord(year, 1, 1))
             + ((week_number - 1) * 7) + day)

\* MenuParser.get_date(year, week_number, day)
get_date(year, week_number, day) ==
    LET ys == Digits(year)
        ws == Digits(week_number)
        us == Digits(day)
    IN IF ~(MatchesG(ys) /\ MatchesV(ws) /\ MatchesU(us))
       THEN Raised("ValueError")
       ELSE LET yj     == CalcJulianFromV(IntOf(ys), IntOf(ws), (IntOf(us) - 1) + 1)
                year0  == IF yj[2] <= 0 THEN yj[1] - 1 ELSE yj[1]
                julian == IF yj[2] <= 0
                          THEN yj[2] + (IF IsLeap(year0) THEN 366 ELSE 365)
                          ELSE yj[2]
            IN Returned((julian - 1) + Ymd2Ord(year0, 1, 1))


\* ------------------------------------------------------------------------
\* Strings as sequences of characters
\* ------------------------------------------------------------------------
Whitespace == {" ", "\n"}

SeqsUpTo(S, n) == UNION {[1..k -> S] : k \in 0..n}

SetMin(S) == CHOOSE x \in S : \A y \in S : x <= y
SetMax(S) == CHOOSE x \in S : \A y \in S : x >= y

\* str.lstrip(), str.rstrip(), str.strip()
RECURSIVE LStrip(_)
LStrip(s) == IF s # <<>> /\ s[1] \in Whitespace THEN LStrip(Tail(s)) ELSE s

RECURSIVE RStrip(_)
RStrip(s) == IF s # <<>> /\ s[Len(s)] \in Whitespace
             THEN RStrip(SubSeq(s, 1, Len(s) - 1)) ELSE s

Strip(s) == RStrip(LStrip(s))

\* str.isspace(): non-empty and whitespace only
IsSpace(s) == s # <<>> /\ \A i \in 1..Len(s) : s[i] \in Whitespace

\* str.split(sep) for a one-character separator: the list of fields
RECURSIVE SplitFrom(_, _, _)
SplitFrom(s, sep, cur) ==
    IF s = <<>> THEN <<cur>>
    ELSE IF s[1] = sep THEN <<cur>> \o SplitFrom(Tail(s), sep, <<>>)
    ELSE SplitFrom(Tail(s), sep, Append(cur, s[1]))

Split(s, sep) == SplitFrom(s, sep, <<>>)

\* dict.get(key, default)
DictGet(d, key, default) == IF key \in DOMAIN d THEN d[key] ELSE default

\* ------------------------------------------------------------------------
\* Label taxonomy
\* ------------------------------------------------------------------------
\* The members of the Label catalog that the parsers name.
Labels ==
    {"ALCOHOL", "ALMONDS", "ANTIOXIDANTS", "BARLEY", "BAVARIA", "BEEF", "CASHEWS",
     "CELERY", "CHICKEN_EGGS", "COCOA_CONTAINING_GREASE", "DYESTUFF", "FISH",
     "FLAVOR_ENHANCER", "GARLIC", "GELATIN", "GLUTEN", "HAZELNUTS", "HYBRIDS",
     "LACTOSE", "LAMB", "LUPIN", "MACADAMIA", "MEAT", "MILK", "MOLLUSCS", "MSC",
     "MUSTARD", "OAT", "PEANUTS", "PECAN", "PHENYLALANINE", "PHOSPHATES",
     "PISTACHIOS", "PORK", "POULTRY", "PRESERVATIVES", "RYE", "SESAME", "SHELLFISH",
     "SHELL_FRUITS", "SOY", "SPELT", "SULFITES", "SULPHURS", "SWEETENERS", "VEAL",
     "VEGAN", "VEGETARIAN", "WALNUTS", "WAXED", "WHEAT", "WILD_MEAT"}

\* The "implies" relation of the label catalog: <<a, b>> means a implies b.
ImpliesRel == {<<"VEGAN", "VEGETARIAN">>}

\* One round of adding implied labels under relation rel.
ImpliedBy(rel, S) == S \cup {e[2] : e \in {r \in rel : r[1] \in S}}

\* Repeatedly add implied labels until the set stops growing.
RECURSIVE Close(_, _)
Close(rel, S) == IF ImpliedBy(rel, S) = S THEN S ELSE Close(rel, ImpliedBy(rel, S))

\* Label.add_supertype_labels(labels)
add_supertype_labels(labels) == Close(ImpliesRel, labels)

\* The _label_subclasses table of each parser class.
Studentenwerk_label_subclasses ==
    <<"G", "Q", "B">> :> {"BAVARIA"} @@ <<"M", "S", "C">> :> {"MSC"} @@
    <<"1">> :> {"DYESTUFF"} @@ <<"2">> :> {"PRESERVATIVES"} @@
    <<"3">> :> {"ANTIOXIDANTS"} @@ <<"4">> :> {"FLAVOR_ENHANCER"} @@
    <<"5">> :> {"SULPHURS"} @@ <<"6">> :> {"DYESTUFF"} @@ <<"7">> :> {"WAXED"} @@
    <<"8">> :> {"PHOSPHATES"} @@ <<"9">> :> {"SWEETENERS"} @@
    <<"1", "0">> :> {"PHENYLALANINE"} @@ <<"1", "1">> :> {"SWEETENERS"} @@
    <<"1", "3">> :> {"COCOA_CONTAINING_GREASE"} @@ <<"1", "4">> :> {"GELATIN"} @@
    <<"9", "9">> :> {"ALCOHOL"} @@ <<"f">> :> {"VEGETARIAN"} @@ <<"v">> :> {"VEGAN"} @@
    <<"S">> :> {"PORK"} @@ <<"R">> :> {"BEEF"} @@ <<"K">> :> {"VEAL"} @@
    <<"K", "n">> :> {"GARLIC"} @@ <<"E", "i">> :> {"CHICKEN_EGGS"} @@
    <<"E", "n">> :> {"PEANUTS"} @@ <<"F", "i">> :> {"FISH"} @@
    <<"G", "l">> :> {"GLUTEN"} @@ <<"G", "l", "W">> :> {"WHEAT"} @@
    <<"G", "l", "R">> :> {"RYE"} @@ <<"G", "l", "G">> :> {"BARLEY"} @@
    <<"G", "l", "H">> :> {"OAT"} @@ <<"G", "l", "D">> :> {"SPELT"} @@
    <<"K", "r">> :> {"SHELLFISH"} @@ <<"L", "u">> :> {"LUPIN"} @@
    <<"M", "i">> :> {"MILK", "LACTOSE"} @@ <<"S", "c">> :> {"SHELLFISH"} @@
    <<"S", "c", "M">> :> {"ALMONDS"} @@ <<"S", "c", "H">> :> {"HAZELNUTS"} @@
    <<"S", "c", "W">> :> {"WALNUTS"} @@ <<"S", "c", "C">> :> {"CASHEWS"} @@
    <<"S", "c", "P">> :> {"PISTACHIOS"} @@ <<"S", "e">> :> {"SESAME"} @@
    <<"S", "f">> :> {"MUSTARD"} @@ <<"S", "l">> :> {"CELERY"} @@
    <<"S", "o">> :> {"SOY"} @@ <<"S", "w">> :> {"SULPHURS", "SULFITES"} @@
    <<"W", "t">> :> {"MOLLUSCS"}

FMIBistro_label_subclasses ==
    <<"a">> :> {"GLUTEN"} @@ <<"a", "W">> :> {"WHEAT"} @@ <<"a", "R">> :> {"RYE"} @@
    <<"a", "G">> :> {"BARLEY"} @@ <<"a", "H">> :> {"OAT"} @@
    <<"a", "D">> :> {"SPELT"} @@ <<"a", "H", "y">> :> {"HYBRIDS"} @@
    <<"b">> :> {"SHELLFISH"} @@ <<"c">> :> {"CHICKEN_EGGS"} @@ <<"d">> :> {"FISH"} @@
    <<"e">> :> {"PEANUTS"} @@ <<"f">> :> {"SOY"} @@ <<"g">> :> {"MILK"} @@
    <<"u">> :> {"LACTOSE"} @@ <<"h">> :> {"SHELL_FRUITS"} @@
    <<"h", "M", "n">> :> {"ALMONDS"} @@ <<"h", "H">> :> {"HAZELNUTS"} @@
    <<"h", "W">> :> {"WALNUTS"} @@ <<"h", "K">> :> {"CASHEWS"} @@
    <<"h", "P", "e">> :> {"PECAN"} @@ <<"h", "P", "i">> :> {"PISTACHIOS"} @@
    <<"h", "Q">> :> {"MACADAMIA"} @@ <<"i">> :> {"CELERY"} @@ <<"j">> :> {"MUSTARD"} @@
    <<"k">> :> {"SESAME"} @@ <<"l">> :> {"SULFITES", "SULPHURS"} @@
    <<"m">> :> {"LUPIN"} @@ <<"n">> :> {"MOLLUSCS"}

MedizinerMensa_label_subclasses ==
    <<"1">> :> {"DYESTUFF"} @@ <<"2">> :> {"PRESERVATIVES"} @@
    <<"3">> :> {"ANTIOXIDANTS"} @@ <<"4">> :> {"FLAVOR_ENHANCER"} @@
    <<"5">> :> {"SULPHURS"} @@ <<"6">> :> {"DYESTUFF"} @@ <<"7">> :> {"WAXED"} @@
    <<"8">> :> {"PHOSPHATES"} @@ <<"9">> :> {"SWEETENERS"} @@ <<"A">> :> {"ALCOHOL"} @@
    <<"B">> :> {"GLUTEN"} @@ <<"C">> :> {"SHELLFISH"} @@ <<"E">> :> {"FISH"} @@
    <<"F">> :> {"FISH"} @@ <<"G">> :> {"POULTRY"} @@ <<"H">> :> {"PEANUTS"} @@
    <<"K">> :> {"VEAL"} @@ <<"L">> :> {"LAMB"} @@ <<"M">> :> {"SOY"} @@
    <<"N">> :> {"MILK", "LACTOSE"} @@ <<"O">> :> {"SHELL_FRUITS"} @@
    <<"P">> :> {"CELERY"} @@ <<"R">> :> {"BEEF"} @@ <<"S">> :> {"PORK"} @@
    <<"T">> :> {"MUSTARD"} @@ <<"U">> :> {"SESAME"} @@
    <<"V">> :> {"SULPHURS", "SULFITES"} @@ <<"W">> :> {"WILD_MEAT"} @@
    <<"X">> :> {"LUPIN"} @@ <<"Y">> :> {"CHICKEN_EGGS"} @@ <<"Z">> :> {"MOLLUSCS"}

StraubingMensa_label_subclasses ==
    <<"1">> :> {"DYESTUFF"} @@ <<"2">> :> {"PRESERVATIVES"} @@
    <<"3">> :> {"ANTIOXIDANTS"} @@ <<"4">> :> {"FLAVOR_ENHANCER"} @@
    <<"5">> :> {"SULPHURS"} @@ <<"6">> :> {"DYESTUFF"} @@ <<"7">> :> {"WAXED"} @@
    <<"8">> :> {"PHOSPHATES"} @@ <<"9">> :> {"SWEETENERS"} @@
    <<"1", "0">> :> {"PHENYLALANINE"} @@ <<"1", "6">> :> {"SULFITES"} @@
    <<"1", "7">> :> {"PHENYLALANINE"} @@ <<"A", "A">> :> {"WHEAT"} @@
    <<"A", "B">> :> {"RYE"} @@ <<"A", "C">> :> {"BARLEY"} @@ <<"A", "D">> :> {"OAT"} @@
    <<"A", "E">> :> {"SPELT"} @@ <<"A", "F">> :> {"GLUTEN"} @@
    <<"B">> :> {"SHELLFISH"} @@ <<"C">> :> {"CHICKEN_EGGS"} @@ <<"D">> :> {"FISH"} @@
    <<"E">> :> {"PEANUTS"} @@ <<"F">> :> {"SOY"} @@ <<"G">> :> {"MILK"} @@
    <<"H", "A">> :> {"ALMONDS"} @@ <<"H", "B">> :> {"HAZELNUTS"} @@
    <<"H", "C">> :> {"WALNUTS"} @@ <<"H", "D">> :> {"CASHEWS"} @@
    <<"H", "E">> :> {"PECAN"} @@ <<"H", "G">> :> {"PISTACHIOS"} @@
    <<"H", "H">> :> {"MACADAMIA"} @@ <<"I">> :> {"CELERY"} @@ <<"J">> :> {"MUSTARD"} @@
    <<"K">> :> {"SESAME"} @@ <<"L">> :> {"SULPHURS", "SULFITES"} @@
    <<"M">> :> {"LUPIN"} @@ <<"N">> :> {"MOLLUSCS"}

ParserClassesWithTable ==
    {"StudentenwerkMenuParser", "FMIBistroMenuParser", "MedizinerMensaMenuParser",
     "StraubingMensaMenuParser"}

label_subclasses(cls) ==
    CASE cls = "StudentenwerkMenuParser"  -> Studentenwerk_label_subclasses
      [] cls = "FMIBistroMenuParser"      -> FMIBistro_label_subclasses
      [] cls = "MedizinerMensaMenuParser" -> MedizinerMensa_label_subclasses
      [] cls = "StraubingMensaMenuParser" -> StraubingMensa_label_subclasses

\* The labels the loop of _parse_label has collected after the fields vs.
RECURSIVE ParseLabelLoop(_, _, _)
ParseLabelLoop(cls, vs, labels) ==
    IF vs = <<>> THEN labels
    ELSE LET stripped == Strip(vs[1])
         IN ParseLabelLoop(cls, Tail(vs),
                IF ~IsSpace(stripped)
                THEN labels \cup DictGet(label_subclasses(cls), stripped, {})
                ELSE labels)

\* A slip: the supertype closure is forgotten.
parse_label_unclosed(cls, labels_str) ==
    ParseLabelLoop(cls, Split(Strip(labels_str), ","), {})

\* A slip: the fields are looked up as split, without value.strip().
RECURSIVE ParseLabelLoopRaw(_, _, _)
ParseLabelLoopRaw(cls, vs, labels) ==
    IF vs = <<>> THEN labels
    ELSE ParseLabelLoopRaw(cls, Tail(vs),
             labels \cup DictGet(label_subclasses(cls), vs[1], {}))

parse_label_unstripped(cls, labels_str) ==
    add_supertype_labels(ParseLabelLoopRaw(cls, Split(Strip(labels_str), ","), {}))

\* MenuParser._parse_label(labels_str), called on parser class cls
_parse_label(cls, labels_str) ==
    add_supertype_labels(ParseLabelLoop(cls, Split(Strip(labels_str), ","), {}))

\* ------------------------------------------------------------------------
\* More string helpers
\* ------------------------------------------------------------------------
UpperChars ==
    <<"A", "B", "C", "D", "E", "F", "G", "H", "I", "J", "K", "L", "M", "N", "O", "P",
      "Q", "R", "S", "T", "U", "V", "W", "X", "Y", "Z", "Ä", "Ö", "Ü">>
LowerChars ==
    <<"a", "b", "c", "d", "e", "f", "g", "h", "i", "j", "k", "l", "m", "n", "o", "p",
      "q", "r", "s", "t", "u", "v", "w", "x", "y", "z", "ä", "ö", "ü">>

\* str.lower()
Lower(s) ==
    [i \in DOMAIN s |->
        IF \E k \in DOMAIN UpperChars : UpperChars[k] = s[i]
        THEN LowerChars[CHOOSE k \in DOMAIN UpperChars : UpperChars[k] = s[i]]
        ELSE s[i]]

\* `sub in s` for strings
Contains(sub, s) ==
    \E i \in 1..(Len(s) - Len(sub) + 1) : SubSeq(s, i, i + Len(sub) - 1) = sub

DigitChars == <<"0", "1", "2", "3", "4", "5", "6", "7", "8", "9">>

\* str(n) as characters
IntStr(n) == [i \in DOMAIN Digits(n) |-> DigitChars[Digits(n)[i] + 1]]

\* ------------------------------------------------------------------------
\* Prices (in cents)
\* ------------------------------------------------------------------------
\* Price(base_price, price_per_unit, unit); the optional per-unit amount is
\* <<>> when absent.
Price(base_price, price_per_unit, unit) ==
    [base_price |-> base_price, price_per_unit |-> <<price_per_unit>>, unit |-> unit]

\* Price(base_price)
BasePrice(base_price) ==
    [base_price |-> base_price, price_per_unit |-> <<>>, unit |-> None]

Prices(students, staff, guests) ==
    [students |-> students, staff |-> staff, guests |-> guests]

\* Prices(): the all-zero triplet
NoPrices == Prices(BasePrice(0), BasePrice(0), BasePrice(0))

\* StudentenwerkMenuParser.SelfServiceBasePriceType
SelfServiceBasePriceType ==
    [VEGETARIAN_SOUP_STEW |-> <<0, 0, 0>>,
     SAUSAGE              |-> <<50, 50, 50>>,
     MEAT                 |-> <<100, 100, 100>>,
     FISH                 |-> <<150, 150, 150>>,
     PIZZA_VEGGIE         |-> <<450, 500, 600>>,
     PIZZA_MEAT           |-> <<500, 550, 650>>]

\* StudentenwerkMenuParser.SelfServicePricePerUnitType
SelfServicePricePerUnitType ==
    [CLASSIC   |-> [students |-> 90, staff |-> 115, guests |-> 160, unit |-> "100g"],
     SOUP_STEW |-> [students |-> 33, staff |-> 115, guests |-> 160, unit |-> "100g"],
     PIZZA     |-> [students |-> 0, staff |-> 0, guests |-> 0, unit |-> "100g"]]

\* StudentenwerkMenuParser.prices_mensa_weihenstephan_mensa_lothstrasse
prices_mensa_weihenstephan_mensa_lothstrasse ==
    "StudiTopf" :> Prices(BasePrice(100), BasePrice(290), BasePrice(390)) @@
    "Gericht 1" :> Prices(BasePrice(295), BasePrice(390), BasePrice(510)) @@
    "Gericht 2" :> Prices(BasePrice(335), BasePrice(460), BasePrice(590)) @@
    "Gericht 3" :> Prices(BasePrice(365), BasePrice(495), BasePrice(630)) @@
    "Gericht 4" :> Prices(BasePrice(415), BasePrice(530), BasePrice(670)) @@
    "Gericht 5" :> Prices(BasePrice(465), BasePrice(565), BasePrice(710)) @@
    "Gericht 6" :> Prices(BasePrice(525), BasePrice(625), BasePrice(780)) @@
    "Beilage 1" :> Prices(BasePrice(80), BasePrice(105), BasePrice(150)) @@
    "Brot" :> Prices(BasePrice(80), BasePrice(105), BasePrice(150)) @@
    "Obst" :> Prices(BasePrice(80), BasePrice(105), BasePrice(150)) @@
    "Beilage 2" :> Prices(BasePrice(90), BasePrice(125), BasePrice(170)) @@
    "Beilage 3" :> Prices(BasePrice(110), BasePrice(145), BasePrice(200)) @@
    "Beilage 4" :> Prices(BasePrice(160), BasePrice(180), BasePrice(260)) @@
    "Pizza - Veggie" :> Prices(BasePrice(450), BasePrice(500), BasePrice(600)) @@
    "Pizza - Wurst. Schinken. Fisch. Meeresfrüchte" :>
        Prices(BasePrice(500), BasePrice(550), BasePrice(650)) @@
    "Salatbuffet" :>
        Prices(Price(0, 90, "100g"), Price(0, 115, "100g"), Price(0, 160, "100g"))

\* StudentenwerkMenuParser.__get_self_service_prices
__get_self_service_prices(base_price_type, price_per_unit_type) ==
    Prices(Price(base_price_type[1], price_per_unit_type.students, price_per_unit_type.unit),
           Price(base_price_type[2], price_per_unit_type.staff, price_per_unit_type.unit),
           Price(base_price_type[3], price_per_unit_type.guests, price_per_unit_type.unit))

\* The base price type __get_price settles on for a self-service canteen.
\* dish = <<dish_type, additional, allergen, type, meatless>>
BasePriceTypeOf(dish, dish_name) ==
    LET first == IF dish[1] # "Studitopf" /\ dish[5] = "0"
                 THEN IF Contains(<<"F", "i">>, dish[3]) THEN "FISH"
                      ELSE IF \/ Contains(<<"w", "u", "r", "s", "t">>, Lower(dish_name))
                              \/ Contains(<<"w", "ü", "r", "s", "t", "c", "h", "e", "n">>,
                                          Lower(dish_name))
                           THEN "SAUSAGE"
                           ELSE "MEAT"
                 ELSE "VEGETARIAN_SOUP_STEW"
    IN IF dish[1] = "Pizza"
       THEN (IF dish[5] = "0" THEN "PIZZA_MEAT" ELSE "PIZZA_VEGGIE")
       ELSE first

\* The per-unit price type __get_price settles on.
PricePerUnitTypeOf(dish) ==
    IF dish[1] = "Pizza" THEN "PIZZA"
    ELSE IF dish[1] = "Studitopf" THEN "SOUP_STEW" ELSE "CLASSIC"

\* A slip: the sausage test is skipped, every non-fish meat dish is MEAT.
get_price_no_sausage(canteen, dish, dish_name) ==
    IF canteen \in {"MENSA_WEIHENSTEPHAN", "MENSA_LOTHSTR"}
    THEN DictGet(prices_mensa_weihenstephan_mensa_lothstrasse, dish[1], NoPrices)
    ELSE __get_self_service_prices(
             SelfServiceBasePriceType[
                 IF BasePriceTypeOf(dish, dish_name) = "SAUSAGE" THEN "MEAT"
                 ELSE BasePriceTypeOf(dish, dish_name)],
             SelfServicePricePerUnitType[PricePerUnitTypeOf(dish)])

\* A slip: the literal table is consulted for one of the two canteens only.
get_price_one_bypass(canteen, dish, dish_name) ==
    IF canteen \in {"MENSA_WEIHENSTEPHAN"}
    THEN DictGet(prices_mensa_weihenstephan_mensa_lothstrasse, dish[1], NoPrices)
    ELSE __get_self_service_prices(
             SelfServiceBasePriceType[BasePriceTypeOf(dish, dish_name)],
             SelfServicePricePerUnitType[PricePerUnitTypeOf(dish)])

\* StudentenwerkMenuParser.__get_price(canteen, dish, dish_name)
__get_price(canteen, dish, dish_name) ==
    IF canteen \in {"MENSA_WEIHENSTEPHAN", "MENSA_LOTHSTR"}
    THEN DictGet(prices_mensa_weihenstephan_mensa_lothstrasse, dish[1], NoPrices)
    ELSE __get_self_service_prices(
             SelfServiceBasePriceType[BasePriceTypeOf(dish, dish_name)],
             SelfServicePricePerUnitType[PricePerUnitTypeOf(dish)])

\* ------------------------------------------------------------------------
\* Rendered-page parser: StudentenwerkMenuParser.__parse_dishes
\* ------------------------------------------------------------------------
\* StudentenwerkMenuParser.__add_diet(labels, diet_str): the labels afterwards
__add_diet(labels, diet_str) ==
    add_supertype_labels(
        IF diet_str = "0"
        THEN (IF "FISH" \notin labels THEN labels \cup {"MEAT"} ELSE labels)
        ELSE IF diet_str = "1" THEN labels \cup {"VEGETARIAN"}
        ELSE IF diet_str = "2" THEN labels \cup {"VEGAN"}
        ELSE labels)

\* Dish(name, prices, labels, dish_type)
Dish(name, prices, labels, dish_type) ==
    [name |-> name, prices |-> prices, labels |-> labels, dish_type |-> dish_type]

\* " (k)", the suffix of the k-th occurrence of a name
DuplicateSuffix(k) == <<" ", "(">> \o IntStr(k) \o <<")">>

\* util.make_duplicates_unique(names)
make_duplicates_unique(names) ==
    [i \in DOMAIN names |->
        LET k == Cardinality({j \in 1..i : names[j] = names[i]})
        IN IF k >= 2 THEN names[i] \o DuplicateSuffix(k) ELSE names[i]]

\* A slip: the titles are stripped but duplicates are left alone.
DishNamesNotUnique(titles) == [i \in DOMAIN titles |-> RStrip(titles[i])]

\* dish_names: the stripped titles, made unique
DishNames(titles) ==
    make_duplicates_unique([i \in DOMAIN titles |-> RStrip(titles[i])])

\* dish_types: the category of each span, forward-filled over empty spans
RECURSIVE DishTypesFrom(_, _)
DishTypesFrom(artnames, current_type) ==
    IF artnames = <<>> THEN <<>>
    ELSE LET cur == IF artnames[1] # "" THEN artnames[1] ELSE current_type
         IN <<cur>> \o DishTypesFrom(Tail(artnames), cur)

DishTypes(artnames) == DishTypesFrom(artnames, "")

\* A slip: side dishes are priced like every other dish.
ParseDishPricedSideDish(canteen, dish_name, dish_type, additional_marker, allergen_marker, type_marker, meatless_marker) ==
    Dish(dish_name,
         __get_price(canteen,
                     <<dish_type, additional_marker, allergen_marker, type_marker,
                       meatless_marker>>, dish_name),
         __add_diet(_parse_label("StudentenwerkMenuParser", additional_marker)
                    \cup _parse_label("StudentenwerkMenuParser", allergen_marker)
                    \cup _parse_label("StudentenwerkMenuParser", type_marker),
                    meatless_marker),
         dish_type)

\* The body of the loop of __parse_dishes: one Dish from one entry of each array.
ParseDish(canteen, dish_name, dish_type, additional_marker, allergen_marker, type_marker, meatless_marker) ==
    LET labels == __add_diet(
                      _parse_label("StudentenwerkMenuParser", additional_marker)
                      \cup _parse_label("StudentenwerkMenuParser", allergen_marker)
                      \cup _parse_label("StudentenwerkMenuParser", type_marker),
                      meatless_marker)
        prices == IF dish_type = "Beilagen"
                  THEN __get_self_service_prices(
                           SelfServiceBasePriceType.VEGETARIAN_SOUP_STEW,
                           SelfServicePricePerUnitType.CLASSIC)
                  ELSE __get_price(canteen,
                                   <<dish_type, additional_marker, allergen_marker,
                                     type_marker, meatless_marker>>, dish_name)
    IN Dish(dish_name, prices, labels, dish_type)

\* A slip: zip(..., strict=True), unequal lengths raise ValueError and no dish
\* is built.
ZipLengthStrict(lens) == IF Cardinality(lens) > 1 THEN 0 ELSE SetMin(lens)

\* zip(..., strict=False) stops with the shortest of the arrays.
ZipLength(lens) == SetMin(lens)

\* StudentenwerkMenuParser.__parse_dishes on the six arrays of a day block
__parse_dishes(block, canteen) ==
    LET dish_names == DishNames(block.titles)
        dish_types == DishTypes(block.artnames)
        n == ZipLength({Len(dish_names), Len(dish_types), Len(block.zusatz),
                        Len(block.allergene), Len(block.typ), Len(block.fleischlos)})
    IN [i \in 1..n |->
           ParseDish(canteen, dish_names[i], dish_types[i], block.zusatz[i],
                     block.allergene[i], block.typ[i], block.fleischlos[i])]

Block(titles, artnames, zusatz, allergene, typ, fleischlos) ==
    [titles |-> titles, artnames |-> artnames, zusatz |-> zusatz,
     allergene |-> allergene, typ |-> typ, fleischlos |-> fleischlos]

\* A call of __parse_dishes on one of the given blocks.
CallParseDishes(canteen, block) ==
    /\ sw_canteen' = canteen
    /\ sw_block' = block
    /\ sw_names' = DishNames(block.titles)
    /\ sw_types' = DishTypes(block.artnames)
    /\ sw_dishes' = __parse_dishes(block, canteen)
    /\ UNCHANGED <<dateVars, labelVars, mainVars, dishVars, runVars, trVars>>

\* ------------------------------------------------------------------------
\* Regular expressions and number parsing used by the text parsers
\* ------------------------------------------------------------------------
DigitSet == {DigitChars[k] : k \in DOMAIN DigitChars}
Letters == {UpperChars[k] : k \in 1..26} \cup {LowerChars[k] : k \in 1..26}

DigitVal(c) == (CHOOSE k \in DOMAIN DigitChars : DigitChars[k] = c) - 1

\* int() of a string of digits, 0 for the empty string
RECURSIVE DecVal(_)
DecVal(s) ==
    IF s = <<>> THEN 0
    ELSE DecVal(SubSeq(s, 1, Len(s) - 1)) * 10 + DigitVal(s[Len(s)])

AllDigits(s) == \A i \in DOMAIN s : s[i] \in DigitSet

ValueError == -1

\* float(s) in cents for a string of digits and "."; the decimals after the
\* second are dropped.  ValueError when s is no number.
Float(s) ==
    LET parts == Split(s, ".")
    IN IF Len(parts) = 1 /\ s # <<>> /\ AllDigits(s) THEN DecVal(s) * 100
       ELSE IF /\ Len(parts) = 2
               /\ AllDigits(parts[1]) /\ AllDigits(parts[2])
               /\ Len(parts[1]) + Len(parts[2]) > 0
            THEN DecVal(parts[1]) * 100
                 + (IF Len(parts[2]) = 0 THEN 0
                    ELSE IF Len(parts[2]) = 1 THEN DecVal(parts[2]) * 10
                    ELSE DecVal(SubSeq(parts[2], 1, 2)))
       ELSE ValueError

\* str.replace(old, new) for a non-empty old
RECURSIVE Replace(_, _, _)
Replace(s, old, new) ==
    IF Len(s) < Len(old) THEN s
    ELSE IF SubSeq(s, 1, Len(old)) = old
         THEN new \o Replace(SubSeq(s, Len(old) + 1, Len(s)), old, new)
    ELSE <<s[1]>> \o Replace(Tail(s), old, new)

\* s[a:b] with Python's clamping and negative indices
PySlice(s, a, b) ==
    LET norm(x) == IF x < 0 THEN (IF Len(s) + x < 0 THEN 0 ELSE Len(s) + x)
                   ELSE IF x > Len(s) THEN Len(s) ELSE x
    IN SubSeq(s, norm(a) + 1, norm(b))

\* the position after the digits that start at j
RECURSIVE DigitsEnd(_, _)
DigitsEnd(s, j) ==
    IF j <= Len(s) /\ s[j] \in DigitSet THEN DigitsEnd(s, j + 1) ELSE j

\* the position after the whitespace that starts at j
RECURSIVE SpacesEnd(_, _)
SpacesEnd(s, j) ==
    IF j <= Len(s) /\ s[j] \in Whitespace THEN SpacesEnd(s, j + 1) ELSE j

\* the position after the letters that start at j
RECURSIVE LettersEnd(_, _)
LettersEnd(s, j) ==
    IF j <= Len(s) /\ s[j] \in Letters THEN LettersEnd(s, j + 1) ELSE j

\* ([A-C]|[E-H]|[K-P]|[R-Z]|[1-9])
MedizinerCodeChars ==
    {"A", "B", "C", "E", "F", "G", "H", "K", "L", "M", "N", "O", "P", "R", "S", "T",
     "U", "V", "W", "X", "Y", "Z", "1", "2", "3", "4", "5", "6", "7", "8", "9"}

\* the position after the repetitions (,code)* that start at j
RECURSIVE CodesEnd(_, _)
CodesEnd(s, j) ==
    IF j + 1 <= Len(s) /\ s[j] = "," /\ s[j + 1] \in MedizinerCodeChars
    THEN CodesEnd(s, j + 2) ELSE j

\* MedizinerMensaMenuParser.labels_regex matched at position i: the position
\* after the match, 0 when there is none.  Only the longest run of codes can
\* be followed by whitespace or the end of the string.
labels_regex(s, i) ==
    IF i + 1 <= Len(s) /\ s[i] \in Whitespace /\ s[i + 1] \in MedizinerCodeChars
    THEN LET j == CodesEnd(s, i + 2)
         IN IF j <= Len(s) /\ s[j] \in Whitespace THEN j + 1
            ELSE IF j = Len(s) + 1 THEN j
            ELSE 0
    ELSE 0

\* MedizinerMensaMenuParser.price_regex matched at position i
price_regex(s, i) ==
    IF i <= Len(s) /\ s[i] \in DigitSet
    THEN LET j == DigitsEnd(s, i)
         IN IF /\ j + 2 <= Len(s) /\ s[j] = ","
               /\ s[j + 1] \in DigitSet /\ s[j + 2] \in DigitSet
            THEN IF j + 3 <= Len(s) /\ s[j + 3] = "€" THEN j + 4
                 ELSE IF /\ j + 4 <= Len(s) /\ s[j + 3] \in Whitespace
                         /\ s[j + 4] = "€" THEN j + 5
                 ELSE 0
            ELSE 0
    ELSE 0

\* r"\s+" matched at position i
whitespace_regex(s, i) == IF i <= Len(s) /\ s[i] \in Whitespace THEN SpacesEnd(s, i) ELSE 0

\* r"\d+(?:,\d+)?" matched at position i
fmi_price_regex(s, i) ==
    IF i <= Len(s) /\ s[i] \in DigitSet
    THEN LET j == DigitsEnd(s, i)
         IN IF j + 1 <= Len(s) /\ s[j] = "," /\ s[j + 1] \in DigitSet
            THEN DigitsEnd(s, j + 1) ELSE j
    ELSE 0

\* the position after the repetitions (?:,[A-Za-z]+)* that start at j
RECURSIVE LetterGroupsEnd(_, _)
LetterGroupsEnd(s, j) ==
    IF j + 1 <= Len(s) /\ s[j] = "," /\ s[j + 1] \in Letters
    THEN LetterGroupsEnd(s, LettersEnd(s, j + 1)) ELSE j

\* r"[A-Za-z](?:,[A-Za-z]+)*" matched at position i
fmi_labels_regex(s, i) ==
    IF i <= Len(s) /\ s[i] \in Letters THEN LetterGroupsEnd(s, i + 1) ELSE 0

RegexEnd(re, s, i) ==
    CASE re = "labels_regex"     -> labels_regex(s, i)
      [] re = "price_regex"      -> price_regex(s, i)
      [] re = "whitespace_regex" -> whitespace_regex(s, i)
      [] re = "fmi_price_regex"  -> fmi_price_regex(s, i)
      [] re = "fmi_labels_regex" -> fmi_labels_regex(s, i)

\* re.findall(re, s): the matches from left to right, not overlapping
RECURSIVE FindAllFrom(_, _, _)
FindAllFrom(re, s, i) ==
    IF i > Len(s) THEN <<>>
    ELSE LET e == RegexEnd(re, s, i)
         IN IF e = 0 THEN FindAllFrom(re, s, i + 1)
            ELSE <<SubSeq(s, i, e - 1)>> \o FindAllFrom(re, s, e)

FindAll(re, s) == FindAllFrom(re, s, 1)

\* re.sub(re, repl, s)
RECURSIVE SubFrom(_, _, _, _)
SubFrom(re, repl, s, i) ==
    IF i > Len(s) THEN <<>>
    ELSE LET e == RegexEnd(re, s, i)
         IN IF e = 0 THEN <<s[i]>> \o SubFrom(re, repl, s, i + 1)
            ELSE repl \o SubFrom(re, repl, s, e)

Sub(re, repl, s) == SubFrom(re, repl, s, 1)

\* Prices(students): with a single price, staff and guests pay the students' price
SinglePrices(students) == Prices(students, students, students)

\* What a dish construction yields: the dishes it built or the exception.
Built(dish) == [error |-> "", dishes |-> <<dish>>]
Failed(exception) == [error |-> exception, dishes |-> <<>>]

\* ------------------------------------------------------------------------
\* CSV parser: StraubingMensaMenuParser.parse_dish
\* ------------------------------------------------------------------------
\* A slip: the mark "VG" yields VEGAN only.
marks_to_labels_vegan_only(marks) ==
    LET mark_to_label ==
            <<"V", "G">> :> {"VEGAN"} @@ <<"V">> :> {"VEGETARIAN"} @@
            <<"G">> :> {"POULTRY"} @@ <<"S">> :> {"PORK"} @@ <<"A">> :> {"ALCOHOL"} @@
            <<"F">> :> {"FISH"} @@ <<"R">> :> {"BEEF"} @@ <<"L">> :> {"LAMB"} @@
            <<"W">> :> {"WILD_MEAT"}
        fields == Split(marks, ",")
    IN UNION {DictGet(mark_to_label, fields[i], {}) : i \in DOMAIN fields}

\* StraubingMensaMenuParser._marks_to_labels(marks)
_marks_to_labels(marks) ==
    LET mark_to_label ==
            <<"V", "G">> :> {"VEGAN", "VEGETARIAN"} @@ <<"V">> :> {"VEGETARIAN"} @@
            <<"G">> :> {"POULTRY"} @@ <<"S">> :> {"PORK"} @@ <<"A">> :> {"ALCOHOL"} @@
            <<"F">> :> {"FISH"} @@ <<"R">> :> {"BEEF"} @@ <<"L">> :> {"LAMB"} @@
            <<"W">> :> {"WILD_MEAT"}
        fields == Split(marks, ",")
    IN UNION {DictGet(mark_to_label, fields[i], {}) : i \in DOMAIN fields}

\* str.rfind(c): the last position of c, 0 when c does not occur
RFind(s, c) == SetMax({0} \cup {i \in DOMAIN s : s[i] = c})

RemoveChar(s, c) == SelectSeq(s, LAMBDA x : x # c)

\* A row of the CSV file; data[k] of the code is column k + 1.
Row(date, dish_type, title, marks, students, staff, guests) ==
    <<date, "", dish_type, title, marks, "", students, staff, guests>>

\* StraubingMensaMenuParser.parse_dish(data)
Straubing_parse_dish(data) ==
    LET title   == data[4]
        bracket == RFind(title, "(")
        suffix  == RemoveChar(RemoveChar(SubSeq(title, bracket, Len(title)), "("), ")")
        labels  == IF bracket # 0
                   THEN _parse_label("StraubingMensaMenuParser", suffix) ELSE {}
        name    == IF bracket # 0 THEN Strip(SubSeq(title, 1, bracket - 1)) ELSE title
        p6      == Float(Replace(data[7], <<",">>, <<".">>))
        p7      == Float(Replace(data[8], <<",">>, <<".">>))
        p8      == Float(Replace(data[9], <<",">>, <<".">>))
    IN IF ValueError \in {p6, p7, p8} THEN Failed("ValueError")
       ELSE Built(Dish(name, Prices(BasePrice(p6), BasePrice(p7), BasePrice(p8)),
                       labels \cup _marks_to_labels(data[5]), data[3]))

\* ------------------------------------------------------------------------
\* Single-page PDF parser: MedizinerMensaMenuParser.parse_dish
\* ------------------------------------------------------------------------
\* The while loop of parse_dish: the labels collected and the string left
\* when labels_regex matches no more.
RECURSIVE MedizinerLabelLoop(_, _)
MedizinerLabelLoop(dish_str, labels) ==
    LET matches == FindAll("labels_regex", dish_str)
    IN IF matches = <<>> THEN [labels |-> labels, dish_str |-> dish_str]
       ELSE MedizinerLabelLoop(
                Sub("labels_regex", <<" ">>, dish_str),
                labels \cup UNION {_parse_label("MedizinerMensaMenuParser", matches[i])
                                      : i \in DOMAIN matches})

\* MedizinerMensaMenuParser.parse_dish(dish_str)
Mediziner_parse_dish(dish_str) ==
    LET looped  == MedizinerLabelLoop(dish_str, {})
        spaced  == Strip(Sub("whitespace_regex", <<" ">>, looped.dish_str))
        cleaned == Replace(spaced, <<" ", ",", " ">>, <<",", " ">>)
        found   == FindAll("price_regex", cleaned)
        amount(m) == Float(Replace(Strip(RemoveChar(m, "€")), <<",">>, <<".">>))
        dish_price == IF found = <<>> THEN NoPrices
                      ELSE SinglePrices(BasePrice(amount(found[Len(found)])))
    IN Built(Dish(Sub("price_regex", <<>>, cleaned), dish_price,
                  looped.labels, "Tagesgericht"))

\* ------------------------------------------------------------------------
\* Weekly PDF parser: the priced line of FMIBistroMenuParser.get_menus
\* ------------------------------------------------------------------------
\* FMIBistroMenuParser.__get_label_str_and_price(column_index, line): <<>> for
\* None, else <<the pair (labels_str, price)>>
__get_label_str_and_price(column_index, line) ==
    LET estimated_column_length == Len(line) \div 5
        estimated_column_begin  == column_index * estimated_column_length
        estimated_column_end    ==
            IF estimated_column_begin + estimated_column_length < Len(line)
            THEN estimated_column_begin + estimated_column_length ELSE Len(line)
        delta  == 15
        prices == FindAll("fmi_price_regex",
                      PySlice(line, estimated_column_end - delta,
                              IF estimated_column_end + delta < Len(line)
                              THEN estimated_column_end + delta ELSE Len(line)))
        found  == FindAll("fmi_labels_regex",
                      PySlice(line,
                              IF estimated_column_begin - delta > 0
                              THEN estimated_column_begin - delta ELSE 0,
                              estimated_column_begin + delta))
    IN IF prices = <<>> THEN <<>>
       ELSE <<[labels_str |-> IF found = <<>> THEN <<>> ELSE found[1],
               price |-> Float(Replace(prices[1], <<",">>, <<".">>))]>>

\* " ".join(parts)
RECURSIVE Join(_)
Join(parts) ==
    IF parts = <<>> THEN <<>>
    ELSE IF Len(parts) = 1 THEN parts[1]
    ELSE parts[1] \o <<" ">> \o Join(Tail(parts))

\* The else branch of the line loop of get_menus for one priced line: no dish
\* when the weekday's column holds no price.
FMIPricedLine(weekday, line, dish_title_parts, dish_type) ==
    LET label_str_and_price_optional == __get_label_str_and_price(weekday, line)
    IN IF label_str_and_price_optional = <<>> THEN [error |-> "", dishes |-> <<>>]
       ELSE LET label_str == label_str_and_price_optional[1].labels_str
                price     == label_str_and_price_optional[1].price
            IN Built(Dish(Sub("whitespace_regex", <<" ">>, Join(dish_title_parts)),
                          Prices(BasePrice(price), BasePrice(price),
                                 BasePrice(price + 80)),
                          _parse_label("FMIBistroMenuParser", label_str),
                          dish_type))

\* ------------------------------------------------------------------------
\* JSON-API parser: mutate of MensaBildungscampusHeilbronnParser.parse
\* ------------------------------------------------------------------------
mutate(element) ==
    Built(Dish(element.name,
               Prices(Price(0, element.prices.students, "Portion"),
                      Price(0, element.prices.employees, "Portion"),
                      Price(0, element.prices.others, "Portion")),
               {}, element.category))

\* A dish construction of one of the parsers on the given input.
BuildDish(parser, input, outcome) ==
    /\ pd_parser' = parser
    /\ pd_input' = input
    /\ pd_error' = outcome.error
    /\ pd_dishes' = outcome.dishes
    /\ UNCHANGED <<dateVars, labelVars, mainVars, stwVars, runVars, trVars>>

\* ------------------------------------------------------------------------
\* Runs of a parser: shared helpers
\* ------------------------------------------------------------------------
Range(s) == {s[i] : i \in DOMAIN s}

\* An optional value: <<>> for None, <<v>> for the value v.
Some(v) == <<v>>

\* Menu(date, dishes); the date is optional
Menu(date, dishes) == [menu_date |-> date, dishes |-> dishes]

\* menus[key] = menu
DictSet(menus, key, menu) ==
    [k \in DOMAIN menus \cup {key} |-> IF k = key THEN menu ELSE menus[k]]

\* menus.update(more)
DictUpdate(menus, more) ==
    [k \in DOMAIN menus \cup DOMAIN more |-> IF k \in DOMAIN more THEN more[k] ELSE menus[k]]

\* A date string "dd.mm.yyyy" of an existing day
IsDateStr(s) ==
    /\ Len(s) = 10 /\ s[3] = "." /\ s[6] = "."
    /\ \A i \in {1, 2, 4, 5, 7, 8, 9, 10} : s[i] \in DigitSet
    /\ DecVal(SubSeq(s, 7, 10)) >= 1
    /\ DecVal(SubSeq(s, 4, 5)) \in 1..12
    /\ DecVal(SubSeq(s, 1, 2)) \in
           1..DaysInMonth(DecVal(SubSeq(s, 7, 10)), DecVal(SubSeq(s, 4, 5)))

\* util.parse_date(date_str): the ordinal of the date, ValueError for a string
\* that is no date
parse_date(date_str) ==
    IF IsDateStr(date_str)
    THEN Ymd2Ord(DecVal(SubSeq(date_str, 7, 10)), DecVal(SubSeq(date_str, 4, 5)),
                 DecVal(SubSeq(date_str, 1, 2)))
    ELSE ValueError

\* The start of a run of a parser on the given input.
RunStart(parser, input) ==
    /\ r_parser = None
    /\ r_parser' = parser
    /\ r_input' = input

\* The run ends with an exception that leaves the method.
RunRaise(exception) ==
    /\ r_pc' = "raised"
    /\ r_error' = exception
    /\ r_result' = <<>>

\* The run returns the value (<<>> for None).
RunReturn(value) ==
    /\ r_pc' = "returned"
    /\ r_error' = ""
    /\ r_result' = value

\* ------------------------------------------------------------------------
\* Rendered-page parser: StudentenwerkMenuParser.parse
\* ------------------------------------------------------------------------
\* A day block of the page: the texts its date query finds and its six arrays.
DayBlock(date_strs, arrays) == [date_strs |-> date_strs, arrays |-> arrays]

\* StudentenwerkMenuParser.extract_date_from_html(tree): the optional date, or
\* the IndexError of the subscript [0]
extract_date_from_html(tree) ==
    IF tree.date_strs = <<>> THEN [error |-> "IndexError", date |-> <<>>]
    ELSE IF parse_date(tree.date_strs[1]) = ValueError THEN [error |-> "", date |-> <<>>]
    ELSE [error |-> "", date |-> Some(parse_date(tree.date_strs[1]))]

\* StudentenwerkMenuParser.get_menu(page, canteen)
get_menu(page, canteen) ==
    LET date == extract_date_from_html(page)
    IN IF date.error # "" THEN [error |-> date.error, menu |-> <<>>]
       ELSE [error |-> "",
             menu |-> Some(Menu(date.date, __parse_dishes(page.arrays, canteen)))]

\* parse up to the loop: the request, page.ok and html.fromstring
stw_fetch(canteen, page) ==
    /\ r_pc = "start"
    /\ RunStart("StudentenwerkMenuParser", [canteen |-> canteen, page |-> page])
    /\ r_i' = 1
    /\ r_menus' = <<>>
    /\ IF page.fetch \in {"Timeout", "ConnectionError"}
       THEN RunRaise(page.fetch) /\ r_log' = r_log
       ELSE IF page.fetch = "not ok"
       THEN RunReturn(Some(<<>>)) /\ r_log' = r_log
       ELSE IF page.fetch = "empty"
       THEN RunReturn(Some(<<>>)) /\ r_log' = Append(r_log, "ParserError")
       ELSE r_pc' = "loop" /\ UNCHANGED <<r_result, r_error, r_log>>
    /\ UNCHANGED <<dateVars, labelVars, mainVars, stwVars, dishVars, trVars>>

\* one iteration of the loop over the day blocks, inside the try
stw_block ==
    /\ r_parser = "StudentenwerkMenuParser" /\ r_pc = "loop"
    /\ r_i <= Len(r_input.page.blocks)
    /\ \E got \in {get_menu(r_input.page.blocks[r_i], r_input.canteen)} :
          IF got.error # ""
          THEN /\ RunReturn(Some(r_menus))
               /\ r_log' = Append(r_log, got.error)
               /\ UNCHANGED <<r_i, r_menus>>
          ELSE /\ r_menus' = DictSet(r_menus, got.menu[1].menu_date, got.menu[1])
               /\ r_i' = r_i + 1
               /\ UNCHANGED <<r_pc, r_result, r_error, r_log>>
    /\ UNCHANGED <<r_parser, r_input>>
    /\ UNCHANGED <<dateVars, labelVars, mainVars, stwVars, dishVars, trVars>>

\* the loop is over: return menus
stw_return ==
    /\ r_parser = "StudentenwerkMenuParser" /\ r_pc = "loop"
    /\ r_i > Len(r_input.page.blocks)
    /\ RunReturn(Some(r_menus))
    /\ UNCHANGED <<r_parser, r_input, r_i, r_menus, r_log>>
    /\ UNCHANGED <<dateVars, labelVars, mainVars, stwVars, dishVars, trVars>>

\* ------------------------------------------------------------------------
\* Weekly PDF-text parser: FMIBistroMenuParser.get_menus
\* ------------------------------------------------------------------------
Euro == "€"

\* FMIBistroMenuParser.DishType in definition order, as str(dish_type)
DishType == <<"DishType.SOUP", "DishType.MEAT", "DishType.VEGETARIAN", "DishType.VEGAN">>

\* Week.get_non_weekend_days_for_calendar_week(year, calendar_week): Monday to
\* Friday of the ISO week
get_non_weekend_days_for_calendar_week(year, calendar_week) ==
    [k \in 1..5 |-> IsoWeek1Monday(year) + 7 * (calendar_week - 1) + (k - 1)]

\* FMIBistroMenuParser.__extract_dish_title_part(line, weekday_index): <<>> for
\* None. The first match of \S+(?:\s+\S+)* in a slice is the slice without its
\* surrounding whitespace.
__extract_dish_title_part(line, weekday_index) ==
    LET estimated_column_length == 49
        estimated_column_begin  == weekday_index * estimated_column_length
        column_end ==
            IF estimated_column_begin + estimated_column_length < Len(line)
            THEN estimated_column_begin + estimated_column_length ELSE Len(line)
        distance == IF column_end >= Len(line) THEN column_end - Len(line)
                    ELSE Len(line) - column_end
        estimated_column_end == IF distance < 5 THEN Len(line) ELSE column_end
        part == Strip(PySlice(line, estimated_column_begin, estimated_column_end))
    IN IF part = <<>> THEN <<>> ELSE <<part>>

\* The loop over the lines for one weekday, from the given loop state on:
\* n_types is the number of dish types the iterator has handed out.
RECURSIVE FmiLineLoop(_, _, _, _, _)
FmiLineLoop(lines, weekday, dish_title_parts, n_types, dishes) ==
    IF lines = <<>> THEN [error |-> "", dishes |-> dishes]
    ELSE IF ~Contains(<<Euro>>, Head(lines))
    THEN FmiLineLoop(Tail(lines), weekday,
                     dish_title_parts \o __extract_dish_title_part(Head(lines), weekday),
                     n_types, dishes)
    ELSE IF n_types = Len(DishType) THEN Failed("ParsingError")
    ELSE LET built == FMIPricedLine(weekday, Head(lines), dish_title_parts,
                                    DishType[n_types + 1])
         IN IF built.dishes = <<>> THEN [error |-> "", dishes |-> dishes]
            ELSE FmiLineLoop(Tail(lines), weekday, <<>>, n_types + 1,
                             dishes \o built.dishes)

\* The dishes of one weekday, or the ParsingError of its line loop
FmiDay(lines, weekday) == FmiLineLoop(lines, weekday, <<>>, 0, <<>>)

\* get_menus up to the loop over the weekdays
fmi_get_menus(lines, year, calendar_week) ==
    /\ r_pc = "start"
    /\ RunStart("FMIBistroMenuParser",
                [lines |-> lines,
                 dates |-> get_non_weekend_days_for_calendar_week(year, calendar_week)])
    /\ r_i' = 1
    /\ r_menus' = <<>>
    /\ r_pc' = "loop"
    /\ UNCHANGED <<r_result, r_error, r_log>>
    /\ UNCHANGED <<dateVars, labelVars, mainVars, stwVars, dishVars, trVars>>

\* one iteration of the loop over the weekdays; date.weekday() is r_i - 1
fmi_day ==
    /\ r_parser = "FMIBistroMenuParser" /\ r_pc = "loop"
    /\ r_i <= Len(r_input.dates)
    /\ \E day \in {FmiDay(r_input.lines, r_i - 1)} :
          IF day.error # ""
          THEN RunRaise(day.error) /\ UNCHANGED <<r_i, r_menus>>
          ELSE /\ r_menus' = IF day.dishes = <<>> THEN r_menus
                             ELSE DictSet(r_menus, Some(r_input.dates[r_i]),
                                          Menu(Some(r_input.dates[r_i]), day.dishes))
               /\ r_i' = r_i + 1
               /\ UNCHANGED <<r_pc, r_result, r_error>>
    /\ UNCHANGED <<r_parser, r_input, r_log>>
    /\ UNCHANGED <<dateVars, labelVars, mainVars, stwVars, dishVars, trVars>>

\* the loop is over: return menus
fmi_return ==
    /\ r_parser = "FMIBistroMenuParser" /\ r_pc = "loop"
    /\ r_i > Len(r_input.dates)
    /\ RunReturn(Some(r_menus))
    /\ UNCHANGED <<r_parser, r_input, r_i, r_menus, r_log>>
    /\ UNCHANGED <<dateVars, labelVars, mainVars, stwVars, dishVars, trVars>>

\* ------------------------------------------------------------------------
\* Single-page PDF parser: MedizinerMensaMenuParser.parse
\* ------------------------------------------------------------------------
\* r"KW_([1-9]+\d*)_.*_-?(\d+).*" with re.IGNORECASE matched at position i:
\* <<>> or the two groups. The first group is the run of digits after "KW_",
\* which has to begin with a digit from 1 to 9 and to end before "_"; the greedy
\* .* leaves the match of _-?(\d+) to the last "_" that a digit follows,
\* directly or after "-".
YearStarts(s, from) ==
    {p \in from..Len(s) :
        /\ s[p] = "_"
        /\ \/ p + 1 <= Len(s) /\ s[p + 1] \in DigitSet
           \/ p + 2 <= Len(s) /\ s[p + 1] = "-" /\ s[p + 2] \in DigitSet}

wn_year_match_at(s, i) ==
    IF ~(i + 3 <= Len(s) /\ s[i] \in {"K", "k"} /\ s[i + 1] \in {"W", "w"}
           /\ s[i + 2] = "_" /\ s[i + 3] \in DigitSet \ {"0"})
    THEN <<>>
    ELSE LET e == DigitsEnd(s, i + 3)
         IN IF ~(e <= Len(s) /\ s[e] = "_") \/ YearStarts(s, e + 1) = {} THEN <<>>
            ELSE LET p == SetMax(YearStarts(s, e + 1))
                     y == IF s[p + 1] = "-" THEN p + 2 ELSE p + 1
                 IN <<[group1 |-> SubSeq(s, i + 3, e - 1),
                       group2 |-> SubSeq(s, y, DigitsEnd(s, y) - 1)]>>

\* re.search(r"KW_([1-9]+\d*)_.*_-?(\d+).*", pdf_name, re.IGNORECASE)
wn_year_match(pdf_name) ==
    LET starts == {i \in DOMAIN pdf_name : wn_year_match_at(pdf_name, i) # <<>>}
    IN IF starts = {} THEN <<>> ELSE wn_year_match_at(pdf_name, SetMin(starts))

\* Lines 598-608 of parse, from the match on: the week number and the year
YearOfMatch(match) ==
    LET week_number == DecVal(match.group1)
        year_2d     == DecVal(match.group2)
    IN IF Len(Digits(year_2d)) \notin {2, 4}
       THEN [error |-> "RuntimeError", week_number |-> week_number, year |-> 0]
       ELSE [error |-> "", week_number |-> week_number,
             year |-> IF Len(Digits(year_2d)) = 2 THEN 2000 + year_2d ELSE year_2d]

\* Lines 595-608 of parse: the week number and the year of the file name
ParseFilename(pdf_name) ==
    CHOOSE parsed \in
        {IF wn_year = <<>>
         THEN [error |-> "RuntimeError", week_number |-> 0, year |-> 0]
         ELSE YearOfMatch(wn_year[1]) : wn_year \in {wn_year_match(pdf_name)}} : TRUE

\* "Feiertag"
Feiertag == <<"F", "e", "i", "e", "r", "t", "a", "g">>

\* Menu.remove_duplicates(): the first dish of every (name, category) pair
RECURSIVE remove_duplicates(_, _)
remove_duplicates(dishes, unique) ==
    IF dishes = <<>> THEN unique
    ELSE remove_duplicates(
             Tail(dishes),
             IF \E i \in DOMAIN unique : /\ unique[i].name = Head(dishes).name
                                         /\ unique[i].dish_type = Head(dishes).dish_type
             THEN unique ELSE Append(unique, Head(dishes)))

\* the position after the line feeds that start at j
RECURSIVE LineFeedsEnd(_, _)
LineFeedsEnd(s, j) == IF j <= Len(s) /\ s[j] = "\n" THEN LineFeedsEnd(s, j + 1) ELSE j

\* re.split(r"(\n{2,}|(?<!mit)\n(?=[A-Z]))", s) from position i on: the
\* pieces and, as the group captures them, the separators between them
RECURSIVE SplitMainsFrom(_, _, _)
SplitMainsFrom(s, i, piece) ==
    IF i > Len(s) THEN <<piece>>
    ELSE IF s[i] # "\n" THEN SplitMainsFrom(s, i + 1, Append(piece, s[i]))
    ELSE LET e == LineFeedsEnd(s, i)
         IN IF e - i >= 2
            THEN <<piece, SubSeq(s, i, e - 1)>> \o SplitMainsFrom(s, e, <<>>)
            ELSE IF /\ ~(i >= 4 /\ SubSeq(s, i - 3, i - 1) = <<"m", "i", "t">>)
                    /\ i + 1 <= Len(s)
                    /\ \E k \in 1..26 : UpperChars[k] = s[i + 1]
            THEN <<piece, <<"\n">>>> \o SplitMainsFrom(s, i + 1, <<>>)
            ELSE SplitMainsFrom(s, i + 1, Append(piece, s[i]))

\* A slip: only the empty name is left out, "Feiertag" is a dish.
RECURSIVE MainsLoopWithHoliday(_, _, _)
MainsLoopWithHoliday(pieces, dish_type, dishes) ==
    IF pieces = <<>> THEN dishes
    ELSE IF Contains(<<"E", "x", "t", "r", "a", "e", "s", "s", "e", "n">>, Head(pieces))
    THEN MainsLoopWithHoliday(Tail(pieces), "Extraessen", dishes)
    ELSE LET dish_str == Replace(Strip(Head(pieces)), <<"\n">>, <<" ">>)
             dish     == Mediziner_parse_dish(dish_str).dishes[1]
             name     == Strip(dish.name)
         IN MainsLoopWithHoliday(Tail(pieces), dish_type,
                IF name = <<>> THEN dishes
                ELSE Append(dishes, [dish EXCEPT !.name = name,
                                                 !.dish_type = IF dish_type # ""
                                                               THEN dish_type ELSE @]))

\* the loop of get_menus over the pieces of mains_str
RECURSIVE MainsLoop(_, _, _)
MainsLoop(pieces, dish_type, dishes) ==
    IF pieces = <<>> THEN dishes
    ELSE IF Contains(<<"E", "x", "t", "r", "a", "e", "s", "s", "e", "n">>, Head(pieces))
    THEN MainsLoop(Tail(pieces), "Extraessen", dishes)
    ELSE LET dish_str == Replace(Strip(Head(pieces)), <<"\n">>, <<" ">>)
             dish     == Mediziner_parse_dish(dish_str).dishes[1]
             name     == Strip(dish.name)
         IN MainsLoop(Tail(pieces), dish_type,
                IF name \in {<<>>, Feiertag} THEN dishes
                ELSE Append(dishes, [dish EXCEPT !.name = name,
                                                 !.dish_type = IF dish_type # ""
                                                               THEN dish_type ELSE @]))

\* soup_str / mains_str of a day: the stripped slices of its lines, each
\* followed by a line feed
RECURSIVE ColumnStr(_, _, _)
ColumnStr(day_lines, from, to) ==
    IF day_lines = <<>> THEN <<>>
    ELSE Strip(PySlice(Head(day_lines), from, to)) \o <<"\n">>
             \o ColumnStr(Tail(day_lines), from, to)

\* The body of the loop of get_menus over the days: the dishes of the Menu of
\* the day with the lines day_lines.
MedizinerDay(day_lines, dish_types) ==
    LET soup_str == Replace(Strip(Replace(ColumnStr(day_lines, 0, 36), <<"-", "\n">>, <<>>)),
                            <<"\n">>, <<" ">>)
        soup     == [Mediziner_parse_dish(soup_str).dishes[1] EXCEPT
                        !.dish_type = IF Len(dish_types) > 0 THEN dish_types[1] ELSE "Suppe"]
        dish_type == IF Len(dish_types) > 1 THEN dish_types[2] ELSE ""
    IN remove_duplicates(
           MainsLoop(SplitMainsFrom(ColumnStr(day_lines, 40, 100), 1, <<>>), dish_type,
                     IF soup.name \in {<<>>, Feiertag} THEN <<>> ELSE <<soup>>),
           <<>>)

\* MedizinerMensaMenuParser.get_menus on a text given as its dish types and
\* the lines of its days: None unless there are seven days, else one Menu per
\* weekday position.
Mediziner_get_menus(text, year, week_number) ==
    IF Len(text.days) # 7 THEN [error |-> "", menus |-> <<>>]
    ELSE IF \E k \in 1..7 : get_date(year, week_number, k).raised
    THEN [error |-> "ValueError", menus |-> <<>>]
    ELSE LET date(k) == Some(get_date(year, week_number, k).date)
         IN [error |-> "",
             menus |-> Some([d \in {date(k) : k \in 1..7} |->
                               LET k == CHOOSE j \in 1..7 : date(j) = d
                               IN Menu(d, MedizinerDay(text.days[k], text.dish_types))])]

\* parse up to the file name: the request of the start page and the links to
\* a menu PDF found on it
med_parse_start(start, hrefs, response, text) ==
    /\ r_pc = "start"
    /\ RunStart("MedizinerMensaMenuParser",
                [start |-> start, hrefs |-> hrefs, response |-> response, text |-> text])
    /\ r_i' = 0
    /\ r_menus' = <<>>
    /\ IF start \in {"Timeout", "ConnectionError"}
       THEN RunRaise(start) /\ r_log' = r_log
       ELSE IF Len(hrefs) # 1
       THEN RunReturn(<<>>) /\ r_log' = Append(r_log, "GET startPageurl")
       ELSE /\ r_pc' = "filename"
            /\ r_log' = Append(r_log, "GET startPageurl")
            /\ UNCHANGED <<r_result, r_error>>
    /\ UNCHANGED <<dateVars, labelVars, mainVars, stwVars, dishVars, trVars>>

\* the rest of parse: the file name, then the download and get_menus
med_parse_pdf ==
    /\ r_parser = "MedizinerMensaMenuParser" /\ r_pc = "filename"
    /\ \E parsed \in {ParseFilename(r_input.hrefs[1])} :
          IF parsed.error # ""
          THEN RunRaise(parsed.error) /\ UNCHANGED <<r_log, r_i>>
          ELSE /\ r_log' = Append(r_log, "GET pdf_url")
               /\ r_i' = parsed.year
               /\ IF r_input.response \in {"Timeout", "ConnectionError"}
                  THEN RunRaise(r_input.response)
                  ELSE \E got \in {Mediziner_get_menus(r_input.text, parsed.year,
                                                       parsed.week_number)} :
                          IF got.error # "" THEN RunRaise(got.error)
                          ELSE RunReturn(got.menus)
    /\ UNCHANGED <<r_parser, r_input, r_menus>>
    /\ UNCHANGED <<dateVars, labelVars, mainVars, stwVars, dishVars, trVars>>

\* ------------------------------------------------------------------------
\* CSV parser: StraubingMensaMenuParser.parse_menu and parse
\* ------------------------------------------------------------------------
\* The loop over the rows of parse_menu from the given loop state on
RECURSIVE ParseMenuLoop(_, _, _, _)
ParseMenuLoop(rows, date, dishes, menus) ==
    IF rows = <<>>
    THEN [error |-> "", menus |-> DictSet(menus, Some(date), Menu(Some(date), dishes))]
    ELSE LET dish_date == parse_date(Head(rows)[1])
             dish      == Straubing_parse_dish(Head(rows))
         IN IF dish_date = ValueError THEN [error |-> "ValueError", menus |-> <<>>]
            ELSE IF dish.error # "" THEN [error |-> dish.error, menus |-> <<>>]
            ELSE IF date # dish_date
            THEN ParseMenuLoop(Tail(rows), dish_date, dish.dishes,
                               DictSet(menus, Some(date), Menu(Some(date), dishes)))
            ELSE ParseMenuLoop(Tail(rows), date, dishes \o dish.dishes, menus)

\* StraubingMensaMenuParser.parse_menu(rows)
parse_menu(rows) ==
    IF rows = <<>> THEN [error |-> "IndexError", menus |-> <<>>]
    ELSE IF parse_date(rows[1][1]) = ValueError THEN [error |-> "ValueError", menus |-> <<>>]
    ELSE ParseMenuLoop(rows, parse_date(rows[1][1]), <<>>, <<>>)

\* A call of parse_menu
csv_parse_menu(rows) ==
    /\ r_pc = "start"
    /\ RunStart("StraubingMensaMenuParser.parse_menu", [rows |-> rows])
    /\ \E got \in {parse_menu(rows)} :
          IF got.error # "" THEN RunRaise(got.error) ELSE RunReturn(Some(got.menus))
    /\ UNCHANGED <<r_i, r_menus, r_log>>
    /\ UNCHANGED <<dateVars, labelVars, mainVars, stwVars, dishVars, trVars>>

\* The file of the week at position i of the scan: beyond the files the server
\* holds the request is answered without success.
Fetch(batches, i) ==
    IF i \in DOMAIN batches THEN batches[i] ELSE [fetch |-> "not ok", rows |-> <<>>]

\* _, calendar_week, _ = today.isocalendar()
CurrentWeek(today) == IsoCalendar(today)[2]

\* a week number that wraps at the end of the year
NextWeekWrapping(calendar_week) ==
    IF calendar_week >= 52 THEN 1 ELSE calendar_week + 1

\* calendar_week += 1
NextWeek(calendar_week) ==
    calendar_week + 1

\* requests.get(self.url.format(calendar_week=calendar_week)): the server holds
\* the files of the weeks from the current one on.
FetchWeek(batches, today, calendar_week) ==
    Fetch(batches, calendar_week - CurrentWeek(today) + 1)

\* util.parse_date(rows[0][0]) and self.parse_menu(rows) of a fetched file: they
\* depend on the file alone, and the run keeps them with the file.
ParsedFile(page) ==
    [date |-> IF page.rows = <<>> THEN ValueError ELSE parse_date(page.rows[1][1]),
     got  |-> parse_menu(page.rows)]

\* StraubingMensaMenuParser.parse up to the loop
csv_parse_start(today, batches) ==
    /\ r_pc = "start"
    /\ RunStart("StraubingMensaMenuParser",
                [today |-> today, batches |-> batches,
                 parsed |-> [i \in DOMAIN batches |-> ParsedFile(batches[i])]])
    /\ r_i' = CurrentWeek(today)
    /\ r_menus' = <<>>
    /\ r_pc' = "loop"
    /\ UNCHANGED <<r_result, r_error, r_log>>
    /\ UNCHANGED <<dateVars, labelVars, mainVars, stwVars, dishVars, trVars>>

\* one iteration of the while loop of parse, with the return after a break
csv_parse_week ==
    /\ r_parser = "StraubingMensaMenuParser" /\ r_pc = "loop"
    /\ \E page \in {FetchWeek(r_input.batches, r_input.today, r_i)} :
          IF page.fetch \in {"Timeout", "ConnectionError"}
          THEN RunRaise(page.fetch) /\ UNCHANGED <<r_i, r_menus>>
          ELSE IF page.fetch # "ok"
          THEN RunReturn(Some(r_menus)) /\ UNCHANGED <<r_i, r_menus>>
          ELSE IF page.rows = <<>>
          THEN RunRaise("IndexError") /\ UNCHANGED <<r_i, r_menus>>
          ELSE \E date \in {r_input.parsed[r_i - CurrentWeek(r_input.today) + 1].date},
                  got \in {r_input.parsed[r_i - CurrentWeek(r_input.today) + 1].got} :
                  IF date = ValueError
                  THEN RunRaise("ValueError") /\ UNCHANGED <<r_i, r_menus>>
                  ELSE IF date < r_input.today - 7
                  THEN RunReturn(Some(r_menus)) /\ UNCHANGED <<r_i, r_menus>>
                  ELSE IF got.error # ""
                  THEN RunRaise(got.error) /\ UNCHANGED <<r_i, r_menus>>
                  ELSE /\ r_menus' = DictUpdate(r_menus, got.menus)
                       /\ r_i' = NextWeek(r_i)
                       /\ UNCHANGED <<r_pc, r_result, r_error>>
    /\ r_log' = Append(r_log, r_i)
    /\ UNCHANGED <<r_parser, r_input>>
    /\ UNCHANGED <<dateVars, labelVars, mainVars, stwVars, dishVars, trVars>>

\* ------------------------------------------------------------------------
\* JSON-API parser: MensaBildungscampusHeilbronnParser.parse
\* ------------------------------------------------------------------------
\* datetime.datetime.strptime(date, "%Y-%m-%d").date() on the form "yyyy-mm-dd"
\* in which the API gives its dates: the ordinal, ValueError for no date
strptime_Ymd(date) ==
    IF /\ Len(date) = 10 /\ date[5] = "-" /\ date[8] = "-"
       /\ \A i \in {1, 2, 3, 4, 6, 7, 9, 10} : date[i] \in DigitSet
       /\ DecVal(SubSeq(date, 1, 4)) >= 1
       /\ DecVal(SubSeq(date, 6, 7)) \in 1..12
       /\ DecVal(SubSeq(date, 9, 10)) \in
              1..DaysInMonth(DecVal(SubSeq(date, 1, 4)), DecVal(SubSeq(date, 6, 7)))
    THEN Ymd2Ord(DecVal(SubSeq(date, 1, 4)), DecVal(SubSeq(date, 6, 7)),
                 DecVal(SubSeq(date, 9, 10)))
    ELSE ValueError

\* list(map(mutate, filter(predicate, days))) of __get_available_dates: the
\* positions of the days that are not closed, in order
RECURSIVE OpenDays(_, _)
OpenDays(days, i) ==
    IF i > Len(days) THEN <<>>
    ELSE (IF days[i].closed THEN <<>> ELSE <<i>>) \o OpenDays(days, i + 1)

\* list(map(mutate, page.json()))
RECURSIVE MapMutate(_)
MapMutate(meals) ==
    IF meals = <<>> THEN <<>> ELSE mutate(Head(meals)).dishes \o MapMutate(Tail(meals))

\* parse up to the loop: __get_available_dates, whose request is followed by
\* .json() whatever the status of the answer
heil_parse_start(api) ==
    /\ r_pc = "start"
    /\ RunStart("MensaBildungscampusHeilbronnParser", api)
    /\ r_i' = 1
    /\ r_menus' = <<>>
    /\ r_log' = r_log
    /\ IF api.fetch \in {"Timeout", "ConnectionError"} THEN RunRaise(api.fetch)
       ELSE IF api.fetch # "ok" THEN RunRaise("JSONDecodeError")
       ELSE r_pc' = "loop" /\ UNCHANGED <<r_result, r_error>>
    /\ UNCHANGED <<dateVars, labelVars, mainVars, stwVars, dishVars, trVars>>

\* one iteration of the loop over the available dates
heil_parse_day ==
    /\ r_parser = "MensaBildungscampusHeilbronnParser" /\ r_pc = "loop"
    /\ r_i <= Len(OpenDays(r_input.days, 1))
    /\ \E day \in {r_input.days[OpenDays(r_input.days, 1)[r_i]]} :
       \E dateobj \in {strptime_Ymd(day.date)} :
          IF dateobj = ValueError
          THEN RunRaise("ValueError") /\ UNCHANGED <<r_i, r_menus>>
          ELSE IF day.fetch \in {"Timeout", "ConnectionError"}
          THEN RunRaise(day.fetch) /\ UNCHANGED <<r_i, r_menus>>
          ELSE /\ r_menus' = IF day.fetch = "ok"
                             THEN DictSet(r_menus, Some(dateobj),
                                          Menu(Some(dateobj), MapMutate(day.meals)))
                             ELSE r_menus
               /\ r_i' = r_i + 1
               /\ UNCHANGED <<r_pc, r_result, r_error>>
    /\ UNCHANGED <<r_parser, r_input, r_log>>
    /\ UNCHANGED <<dateVars, labelVars, mainVars, stwVars, dishVars, trVars>>

\* the loop is over: return menus
heil_parse_return ==
    /\ r_parser = "MensaBildungscampusHeilbronnParser" /\ r_pc = "loop"
    /\ r_i > Len(OpenDays(r_input.days, 1))
    /\ RunReturn(Some(r_menus))
    /\ UNCHANGED <<r_parser, r_input, r_i, r_menus, r_log>>
    /\ UNCHANGED <<dateVars, labelVars, mainVars, stwVars, dishVars, trVars>>

\* ------------------------------------------------------------------------
\* Domain aggregator: Week.to_weeks and the per-week files of jsonify
\* ------------------------------------------------------------------------
\* Week(calendar_week, year, days)
Week(calendar_week, year, days) == [calendar_week |-> calendar_week, year |-> year, days |-> days]

\* The dates of a set in ascending order
RECURSIVE Ascending(_)
Ascending(dates) ==
    IF dates = {} THEN <<>> ELSE <<SetMin(dates)>> \o Ascending(dates \ {SetMin(dates)})

\* Week.to_weeks(menus) from the given position of the dates on. The mapping is
\* keyed by the calendar week number, as jsonify takes it (Dict[int, Week],
\* written to "<year>/<calendar_week:02>.json"); a Week has the ISO year and the
\* ISO week of its dates. When the key is taken already, by a week of another
\* year, the later menu either joins the Week that is there or replaces it.
RECURSIVE ToWeeksFrom(_, _, _, _)
ToWeeksFrom(menus, dates, weeks, collision) ==
    IF dates = <<>> THEN weeks
    ELSE LET menu_date     == Head(dates)
             iso           == IsoCalendar(menu_date)
             calendar_week == iso[2]
             fresh         == Week(calendar_week, iso[1], <<>>)
             week == IF calendar_week \notin DOMAIN weeks THEN fresh
                     ELSE IF weeks[calendar_week].year # iso[1] /\ collision = "replace"
                     THEN fresh ELSE weeks[calendar_week]
         IN ToWeeksFrom(menus, Tail(dates),
                        DictSet(weeks, calendar_week,
                                [week EXCEPT !.days = DictSet(week.days, menu_date,
                                                              menus[Some(menu_date)])]),
                        collision)

to_weeks(menus, collision) ==
    ToWeeksFrom(menus, Ascending({date[1] : date \in DOMAIN menus}), <<>>, collision)

\* The call Week.to_weeks(menus) of main
weeks_to_weeks(menus, collision) ==
    /\ r_pc = "start"
    /\ RunStart("Week", [menus |-> menus, collision |-> collision])
    /\ r_menus' = to_weeks(menus, collision)
    /\ r_pc' = "weeks"
    /\ UNCHANGED <<r_i, r_result, r_error, r_log>>
    /\ UNCHANGED <<dateVars, labelVars, mainVars, stwVars, dishVars, trVars>>

\* jsonify(weeks, directory, canteen, combine_dishes) up to the per-week files:
\* the days written to each path <<year, calendar_week>>
weeks_jsonify ==
    /\ r_parser = "Week" /\ r_pc = "weeks"
    /\ RunReturn(Some([path \in {<<r_menus[w].year, w>> : w \in DOMAIN r_menus} |->
                          DOMAIN r_menus[path[2]].days]))
    /\ UNCHANGED <<r_parser, r_input, r_i, r_menus, r_log>>
    /\ UNCHANGED <<dateVars, labelVars, mainVars, stwVars, dishVars, trVars>>

\* ------------------------------------------------------------------------
\* Dispatcher and main()
\* ------------------------------------------------------------------------
\* The classes that menu_parser.py defines.
MenuParserModule ==
    {"ParsingError", "MenuParser", "StudentenwerkMenuParser", "FMIBistroMenuParser",
     "MedizinerMensaMenuParser", "StraubingMensaMenuParser",
     "MensaBildungscampusHeilbronnParser"}

StudentenwerkCanteens ==
    {"MENSA_ARCISSTR", "MENSA_GARCHING", "MENSA_LEOPOLDSTR", "MENSA_LOTHSTR",
     "MENSA_MARTINSRIED", "MENSA_PASING", "MENSA_WEIHENSTEPHAN", "STUBISTRO_ARCISSTR",
     "STUBISTRO_GOETHESTR", "STUBISTRO_BUTENANDSTR", "STUBISTRO_ROSENHEIM",
     "STUBISTRO_SCHELLINGSTR", "STUBISTRO_MARTINSRIED", "STUCAFE_ADALBERTSTR",
     "STUCAFE_AKADEMIE_WEIHENSTEPHAN", "STUCAFE_WEIHENSTEPHAN_MAXIMUS",
     "STUCAFE_BOLTZMANNSTR", "STUCAFE_CONNOLLYSTR", "STUCAFE_GARCHING",
     "STUCAFE_KARLSTR", "STUCAFE_PASING"}

\* A slip: the bistro parser also declares the canteen of the CSV parser.
canteens_overlapping(cls) ==
    CASE cls = "StudentenwerkMenuParser"            -> StudentenwerkCanteens
      [] cls = "FMIBistroMenuParser"                -> {"FMI_BISTRO", "MENSA_STRAUBING"}
      [] cls = "MedizinerMensaMenuParser"           -> {"MEDIZINER_MENSA"}
      [] cls = "StraubingMensaMenuParser"           -> {"MENSA_STRAUBING"}
      [] cls = "MensaBildungscampusHeilbronnParser" -> {"MENSA_BILDUNGSCAMPUS_HEILBRONN"}
      [] OTHER                                      -> {}

\* parser.canteens, the declared support set of a parser class
canteens(cls) ==
    CASE cls = "StudentenwerkMenuParser"            -> StudentenwerkCanteens
      [] cls = "FMIBistroMenuParser"                -> {"FMI_BISTRO"}
      [] cls = "MedizinerMensaMenuParser"           -> {"MEDIZINER_MENSA"}
      [] cls = "StraubingMensaMenuParser"           -> {"MENSA_STRAUBING"}
      [] cls = "MensaBildungscampusHeilbronnParser" -> {"MENSA_BILDUNGSCAMPUS_HEILBRONN"}
      [] OTHER                                      -> {}

\* The names the set literal `parsers` of get_menu_parsing_strategy looks up
\* on module menu_parser.
RegistryNames ==
    {"StudentenwerkMenuParser", "FMIBistroMenuParser", "IPPBistroMenuParser",
     "MedizinerMensaMenuParser", "StraubingMensaMenuParser",
     "MensaBildungscampusHeilbronnParser"}

\* The Canteen catalog: the canteens the parsers name and one member that no
\* parser class of menu_parser.py supports.
Canteens ==
    UNION {canteens(cls) : cls \in MenuParserModule} \cup {"IPP_BISTRO"}

\* The orders in which a set of classes may be iterated.
Orders(S) ==
    {o \in [1..Cardinality(S) -> S] : \A i, j \in DOMAIN o : i # j => o[i] # o[j]}

\* The for loop of get_menu_parsing_strategy over the classes in order o.
RECURSIVE FirstSupporting(_, _)
FirstSupporting(o, canteen) ==
    IF o = <<>> THEN None
    ELSE IF canteen \in canteens(o[1]) THEN o[1]
    ELSE FirstSupporting(Tail(o), canteen)

\* get_menu_parsing_strategy(canteen): the outcomes over all iteration orders.
\* Evaluating the set literal resolves every name first; a name the module
\* does not define raises AttributeError.
get_menu_parsing_strategy(canteen) ==
    IF RegistryNames \subseteq MenuParserModule
    THEN {[raised |-> FALSE, exc |-> None, parser |-> FirstSupporting(o, canteen)] :
             o \in Orders(RegistryNames)}
    ELSE {[raised |-> TRUE, exc |-> "AttributeError", parser |-> None]}

\* The attributes of the Namespace that cli.parse_cli_args returns.
NamespaceAttrs ==
    {"canteen", "canteen_ids", "print_canteens", "language", "jsonify", "openmensa",
     "date", "combine"}

\* The command lines: exactly one action, at most one output mode.
CliArgs ==
    {a \in [canteen : Canteens \cup {None}, canteen_ids : BOOLEAN,
            print_canteens : BOOLEAN, language : {None, "DE", "EN"},
            jsonify : {None, "dist"}, openmensa : {None, "dist"},
            date : {None, "01.01.2024"}, combine : BOOLEAN] :
        /\ \/ a.canteen # None /\ ~a.canteen_ids /\ ~a.print_canteens
           \/ a.canteen = None /\ a.canteen_ids /\ ~a.print_canteens
           \/ a.canteen = None /\ ~a.canteen_ids /\ a.print_canteens
        /\ Cardinality({x \in {"jsonify", "openmensa", "date"} : a[x] # None}) <= 1}

\* A direct call of get_menu_parsing_strategy.
CallGetStrategy ==
    /\ m_pc = "start" /\ st_canteen = None
    /\ \E c \in Canteens :
           \E r \in get_menu_parsing_strategy(c) :
               /\ st_canteen' = c
               /\ st_result' = r
    /\ m_pc' = "called"
    /\ UNCHANGED <<m_args, m_exit, m_parsed, dateVars, labelVars, stwVars, dishVars, runVars, trVars>>

\* main(): args = cli.parse_cli_args()
main_parse_cli_args ==
    /\ m_pc = "start" /\ st_canteen = None
    /\ \E a \in CliArgs : m_args' = a
    /\ m_pc' = "print_canteens"
    /\ UNCHANGED <<st_canteen, st_result, m_exit, m_parsed, dateVars, labelVars, stwVars, dishVars, runVars, trVars>>

\* main(): `if args.canteens:` reads an attribute of the Namespace; the
\* Namespace has none of that name, so the read raises AttributeError.
main_print_canteens ==
    /\ m_pc = "print_canteens"
    /\ IF "canteens" \in NamespaceAttrs
       THEN m_pc' = "canteen_ids" /\ m_exit' = m_exit
       ELSE m_pc' = "raised" /\ m_exit' = "AttributeError"
    /\ UNCHANGED <<st_canteen, st_result, m_args, m_parsed, dateVars, labelVars, stwVars, dishVars, runVars, trVars>>

\* ------------------------------------------------------------------------
\* Specification SpecDate: calls of MenuParser.get_date
\* ------------------------------------------------------------------------
DateIdle == gd_args = <<>> /\ gd_result = None

\* One call per behaviour: every call is independent of the calls before it.
CallGetDate ==
    /\ gd_args = <<>>
    /\ \E year \in MinYear..MaxYear, week \in 1..53, day \in 1..7 :
           /\ gd_args' = <<year, week, day>>
           /\ gd_result' = get_date(year, week, day)

LabelIdle == pl_cls = None /\ pl_str = <<>> /\ pl_result = None

MainIdle ==
    /\ st_canteen = None /\ st_result = None
    /\ m_pc = "start" /\ m_args = None /\ m_exit = None /\ m_parsed = FALSE

StwIdle ==
    /\ sw_canteen = None /\ sw_block = None
    /\ sw_names = <<>> /\ sw_types = <<>> /\ sw_dishes = <<>>

DishIdle ==
    pd_parser = None /\ pd_input = None /\ pd_error = "" /\ pd_dishes = <<>>

RunIdle ==
    /\ r_parser = None /\ r_pc = "start" /\ r_input = None /\ r_i = 0
    /\ r_menus = <<>> /\ r_result = <<>> /\ r_error = "" /\ r_log = <<>>

TrIdle ==
    /\ tr_pc = "start" /\ tr_input = None /\ tr_i = 0 /\ tr_cache = <<>>
    /\ tr_sent = <<>> /\ tr_last = <<>> /\ tr_files = <<>> /\ tr_disk = <<>>
    /\ tr_error = ""

InitDate == DateIdle /\ LabelIdle /\ MainIdle /\ StwIdle /\ DishIdle /\ RunIdle /\ TrIdle
NextDate == CallGetDate /\ UNCHANGED <<labelVars, mainVars, stwVars, dishVars, runVars, trVars>>
SpecDate == InitDate /\ [][NextDate]_vars

\* ------------------------------------------------------------------------
\* Specification SpecLabel: calls of _parse_label on every parser's table
\* ------------------------------------------------------------------------
\* Characters of the raw marker strings: the separator, blanks, and letters
\* that spell known codes of every table ("v", "Mi", "Fi", "i", "M", "A", "F",
\* "AA", ...) as well as unknown ones ("vv", "iM", ...).
LabelChars == {",", " ", "v", "M", "i", "F", "A"}

CallParseLabel ==
    /\ pl_cls = None
    /\ \E cls \in ParserClassesWithTable, str \in SeqsUpTo(LabelChars, MaxLabelStrLen) :
           /\ pl_cls' = cls
           /\ pl_str' = str
           /\ pl_result' = _parse_label(cls, str)

InitLabel == DateIdle /\ LabelIdle /\ MainIdle /\ StwIdle /\ DishIdle /\ RunIdle /\ TrIdle
NextLabel == CallParseLabel /\ UNCHANGED <<dateVars, mainVars, stwVars, dishVars, runVars, trVars>>
SpecLabel == InitLabel /\ [][NextLabel]_vars

\* ------------------------------------------------------------------------
\* Specification SpecMain: a run of main(), or a direct call of the dispatcher
\* ------------------------------------------------------------------------
InitMain == DateIdle /\ LabelIdle /\ MainIdle /\ StwIdle /\ DishIdle /\ RunIdle /\ TrIdle
NextMain ==
    \/ CallGetStrategy
    \/ main_parse_cli_args
    \/ main_print_canteens
SpecMain == InitMain /\ [][NextMain]_vars

\* ------------------------------------------------------------------------
\* C1
\* ------------------------------------------------------------------------
\* date.fromisocalendar's validity rule: weeks 1..52 always exist, week 53 only
\* in years starting on a Thursday and leap years starting on a Wednesday.
ValidIsoWeek(y, w) ==
    \/ w \in 1..52
    \/ w = 53 /\ LET fw == Ymd2Ord(y, 1, 1) % 7
                 IN fw = 4 \/ (fw = 3 /\ IsLeap(y))

\* C1: for every valid ISO (year, week) and weekday d in 1..7, get_date returns
\* without raising the date whose ISO calendar is exactly (year, week, d); the
\* seven dates of a week are consecutive; and the three dates of test_get_date.
C1_GetDateIsIsoInverse ==
    /\ (gd_args # <<>> /\ ValidIsoWeek(gd_args[1], gd_args[2])) =>
          /\ ~gd_result.raised
          /\ IsoCalendar(gd_result.date) = gd_args
          /\ \A d \in 1..7 :
                get_date(gd_args[1], gd_args[2], d).date
                    = get_date(gd_args[1], gd_args[2], 1).date + (d - 1)
    /\ (gd_args = <<2019, 2, 1>>) => gd_result.date = Ymd2Ord(2019, 1, 7)
    /\ (gd_args = <<2018, 1, 1>>) => gd_result.date = Ymd2Ord(2018, 1, 1)
    /\ (gd_args = <<2017, 44, 1>>) => gd_result.date = Ymd2Ord(2017, 10, 30)

\* A week whose Monday lies in the previous Gregorian year has been converted.
C1_Witness ==
    /\ gd_args # <<>>
    /\ ValidIsoWeek(gd_args[1], gd_args[2])
    /\ gd_args[2] = 1 /\ gd_args[3] = 1
    /\ ~gd_result.raised
    /\ YearOfOrd(gd_result.date) = gd_args[1] - 1

\* ------------------------------------------------------------------------
\* Specification SpecDish: __parse_dishes on day blocks with a single dish
\* ------------------------------------------------------------------------
Currywurst == <<"C", "u", "r", "r", "y", "w", "u", "r", "s", "t">>
WURST      == <<"W", "U", "R", "S", "T">>
Wuerstchen == <<"W", "ü", "r", "s", "t", "c", "h", "e", "n">>
Salat      == <<"S", "a", "l", "a", "t">>
Suppe      == <<"S", "u", "p", "p", "e">>

\* a self-service canteen and the two canteens with the literal price table
DishCanteens == {"MENSA_GARCHING", "MENSA_WEIHENSTEPHAN", "MENSA_LOTHSTR"}
DishTitles == {Currywurst, WURST, Wuerstchen, Salat}
DishCategories == {"Studitopf", "StudiTopf", "Pizza", "Beilagen", "Fleisch", "Gericht 1"}
DishAdditives == {<<>>, <<"F", "i">>}
DishAllergens == SeqsUpTo({"F", "i", ","}, MaxMarkerLen)
DishTypeMarkers == {<<>>, <<"v">>}
DishMeatless == {"0", "1", "2", ""}

parse_dishes_single ==
    /\ sw_canteen = None /\ pd_parser = None
    /\ \E canteen \in DishCanteens, title \in DishTitles, category \in DishCategories,
       additive \in DishAdditives, allergen \in DishAllergens,
       type_marker \in DishTypeMarkers, meatless \in DishMeatless :
        CallParseDishes(canteen,
                        Block(<<title>>, <<category>>, <<additive>>, <<allergen>>,
                              <<type_marker>>, <<meatless>>))

InitDish == DateIdle /\ LabelIdle /\ MainIdle /\ StwIdle /\ DishIdle /\ RunIdle /\ TrIdle
NextDish == parse_dishes_single
SpecDish == InitDish /\ [][NextDish]_vars

\* ------------------------------------------------------------------------
\* Specification SpecDay: __parse_dishes on day blocks whose six arrays have
\* independent lengths
\* ------------------------------------------------------------------------
\* The entries the arrays hold at position i.
DayTitleAt(i)     == <<Salat, Suppe \o <<" ">>, Salat, Currywurst, Suppe>>[((i - 1) % 5) + 1]
DayArtnameAt(i)   == <<"Fleisch", "", "Beilagen", "", "Pizza">>[((i - 1) % 5) + 1]
DayAdditiveAt(i)  == IntStr(((i - 1) % 9) + 1)
DayAllergenAt(i)  == <<<<"F", "i">>, <<"M", "i">>, <<"G", "l">>>>[((i - 1) % 3) + 1]
DayTypeAt(i)      == <<<<"v">>, <<"f">>, <<"S">>>>[((i - 1) % 3) + 1]
DayMeatlessAt(i)  == <<"0", "1", "2">>[((i - 1) % 3) + 1]

parse_dishes_day ==
    /\ sw_canteen = None /\ pd_parser = None
    /\ \E n0 \in 0..MaxNames, n1 \in 0..MaxAttrs, n2 \in 0..MaxAttrs,
          n3 \in 0..MaxAttrs, n4 \in 0..MaxAttrs, n5 \in 0..MaxAttrs :
        CallParseDishes("MENSA_GARCHING",
                        Block([i \in 1..n0 |-> DayTitleAt(i)],
                              [i \in 1..n1 |-> DayArtnameAt(i)],
                              [i \in 1..n2 |-> DayAdditiveAt(i)],
                              [i \in 1..n3 |-> DayAllergenAt(i)],
                              [i \in 1..n4 |-> DayTypeAt(i)],
                              [i \in 1..n5 |-> DayMeatlessAt(i)]))

InitDay == DateIdle /\ LabelIdle /\ MainIdle /\ StwIdle /\ DishIdle /\ RunIdle /\ TrIdle
NextDay == parse_dishes_day
SpecDay == InitDay /\ [][NextDay]_vars

\* ------------------------------------------------------------------------
\* Specification SpecNames: __parse_dishes on day blocks with repeated titles
\* ------------------------------------------------------------------------
NameTitles == {Salat, Salat \o <<" ">>, Suppe, Suppe \o <<" ", " ">>}

parse_dishes_names ==
    /\ sw_canteen = None /\ pd_parser = None
    /\ \E titles \in SeqsUpTo(NameTitles, MaxNames) :
        CallParseDishes("MENSA_GARCHING",
                        Block(titles,
                              [i \in DOMAIN titles |-> DayArtnameAt(i)],
                              [i \in DOMAIN titles |-> DayAdditiveAt(i)],
                              [i \in DOMAIN titles |-> DayAllergenAt(i)],
                              [i \in DOMAIN titles |-> DayTypeAt(i)],
                              [i \in DOMAIN titles |-> DayMeatlessAt(i)]))

InitNames == DateIdle /\ LabelIdle /\ MainIdle /\ StwIdle /\ DishIdle /\ RunIdle /\ TrIdle
NextNames == parse_dishes_names
SpecNames == InitNames /\ [][NextNames]_vars

\* ------------------------------------------------------------------------
\* C2
\* ------------------------------------------------------------------------
\* The parser classes with a declared support set.
C2_Strategies == {cls \in MenuParserModule : canteens(cls) # {}}

\* C2: for a canteen in the support set of some strategy the dispatcher
\* returns a strategy whose support set contains it; for a canteen in no
\* support set it returns no parser, and main ends with "Canteen parser not
\* found" without calling parse.
C2_DispatchBySupportSet ==
    /\ st_canteen # None =>
          /\ ~st_result.raised
          /\ IF \E cls \in C2_Strategies : st_canteen \in canteens(cls)
             THEN st_result.parser \in C2_Strategies
                  /\ st_canteen \in canteens(st_result.parser)
             ELSE st_result.parser = None
    /\ (/\ m_args # None
        /\ m_pc \in {"raised", "exited"}
        /\ m_args.canteen # None
        /\ \A cls \in C2_Strategies : m_args.canteen \notin canteens(cls)) =>
          m_exit = "Canteen parser not found" /\ ~m_parsed

\* ------------------------------------------------------------------------
\* C3
\* ------------------------------------------------------------------------
\* The comma-separated fields of s, as index ranges <<first, last>>.
C3_Fields(s) ==
    {f \in (1..(Len(s) + 1)) \X (0..Len(s)) :
        /\ f[2] >= f[1] - 1
        /\ f[1] = 1 \/ s[f[1] - 1] = ","
        /\ f[2] = Len(s) \/ s[f[2] + 1] = ","
        /\ \A k \in f[1]..f[2] : s[k] # ","}

\* A field without its leading and trailing blanks.
C3_Trimmed(s, f) ==
    LET solid == {k \in f[1]..f[2] : s[k] \notin Whitespace}
    IN IF solid = {} THEN <<>> ELSE SubSeq(s, SetMin(solid), SetMax(solid))

C3_Tokens(s) == {C3_Trimmed(s, f) : f \in C3_Fields(s)}

\* C3: _parse_label never raises and returns exactly the supertype closure of
\* the union of the table entries of the trimmed comma-separated tokens; blank
\* and unknown tokens contribute nothing.
C3_ParseLabelIgnoresUnknown ==
    pl_cls # None =>
        LET table == label_subclasses(pl_cls)
            known == C3_Tokens(pl_str) \cap DOMAIN table
        IN /\ pl_result \subseteq Labels
           /\ pl_result = Close(ImpliesRel, UNION {table[t] : t \in known})

\* A string with a known code, an unknown code and a blank token was parsed.
C3_Witness ==
    /\ pl_cls = "StudentenwerkMenuParser"
    /\ pl_str = <<"v", ",", ",", "A">>
    /\ pl_result = {"VEGAN", "VEGETARIAN"}

\* ------------------------------------------------------------------------
\* C4
\* ------------------------------------------------------------------------
\* Implies relations with a chain and a cycle, besides the catalog's own.
C4_Relations ==
    {ImpliesRel \cup extra :
        extra \in SUBSET {<<"VEGETARIAN", "LACTOSE">>, <<"LACTOSE", "MILK">>,
                          <<"MILK", "VEGAN">>, <<"FISH", "MSC">>}}

\* C4: closing a closed label set adds nothing: the set _parse_label returns
\* (the closure of the looked-up labels) is unchanged by add_supertype_labels,
\* and close(close(S)) = close(S) for the looked-up set S under every relation.
C4_ClosureIdempotent ==
    pl_cls # None =>
        LET S == ParseLabelLoop(pl_cls, Split(Strip(pl_str), ","), {})
        IN /\ add_supertype_labels(pl_result) = pl_result
           /\ add_supertype_labels(add_supertype_labels(S)) = add_supertype_labels(S)
           /\ \A rel \in C4_Relations :
                 Close(rel, Close(rel, S)) = Close(rel, S)

\* A set that the closure really extends was closed.
C4_Witness ==
    /\ pl_cls = "StudentenwerkMenuParser"
    /\ "VEGAN" \in ParseLabelLoop(pl_cls, Split(Strip(pl_str), ","), {})
    /\ "VEGETARIAN" \notin ParseLabelLoop(pl_cls, Split(Strip(pl_str), ","), {})
    /\ "VEGETARIAN" \in pl_result

\* ------------------------------------------------------------------------
\* Specification SpecParsers: the dish construction of each of the five parsers
\* ------------------------------------------------------------------------
ParsersIdle == sw_canteen = None /\ pd_parser = None

CsvTitles == SeqsUpTo({"(", ")", "G", ",", " "}, MaxTitleLen)
CsvMarks ==
    {<<>>, <<"V">>, <<"V", "G">>, <<"V", "G", ",", "S">>, <<"X">>, <<"G", ",", "F">>}
CsvPrices == {<<"2", ",", "8", "0">>, <<"3">>, <<>>}

straubing_parse_dish ==
    /\ ParsersIdle
    /\ \E title \in CsvTitles, marks \in CsvMarks, students \in CsvPrices :
        LET data == Row("01.01.2024", "HG1", title, marks, students,
                        <<"3", ",", "5">>, <<"4", ",", "2", "0">>)
        IN BuildDish("StraubingMensaMenuParser", data, Straubing_parse_dish(data))

PdfDishStrs ==
    SeqsUpTo({" ", "N", "x", ",", "1", "€"}, MaxDishStrLen)
        \cup {<<"x", " ", "N", ",", "9", " ", "1", ",", "1", "1", " ", "€">>,
              <<"x", " ", "N", " ", "9", " ", "N">>}

mediziner_parse_dish ==
    /\ ParsersIdle
    /\ \E dish_str \in PdfDishStrs :
        BuildDish("MedizinerMensaMenuParser", dish_str, Mediziner_parse_dish(dish_str))

FmiLines == SeqsUpTo({"a", "W", ",", " ", "1"}, MaxLineLen)
FmiTitleParts == {<<Suppe>>, <<Salat, Suppe>>, <<>>}
FmiDishTypes == {"DishType.SOUP", "DishType.MEAT", "DishType.VEGETARIAN", "DishType.VEGAN"}

fmi_priced_line ==
    /\ ParsersIdle
    /\ \E weekday \in {0, 4}, line \in FmiLines, parts \in FmiTitleParts,
          dish_type \in FmiDishTypes :
        BuildDish("FMIBistroMenuParser",
                  [weekday |-> weekday, line |-> line, dish_title_parts |-> parts],
                  FMIPricedLine(weekday, line, parts, dish_type))

JsonElements ==
    [name : {Salat, Suppe},
     prices : [students : {0, 350}, employees : {450}, others : {0, 550}],
     category : {"Hauptgericht", "Beilage"}]

heilbronn_mutate ==
    /\ ParsersIdle
    /\ \E element \in JsonElements :
        BuildDish("MensaBildungscampusHeilbronnParser", element, mutate(element))

InitParsers == DateIdle /\ LabelIdle /\ MainIdle /\ StwIdle /\ DishIdle /\ RunIdle /\ TrIdle
NextParsers ==
    \/ parse_dishes_single
    \/ straubing_parse_dish
    \/ mediziner_parse_dish
    \/ fmi_priced_line
    \/ heilbronn_mutate
SpecParsers == InitParsers /\ [][NextParsers]_vars

\* ------------------------------------------------------------------------
\* C5
\* ------------------------------------------------------------------------
\* S holds every label implied by one of its members.
Closed(S) == \A p \in ImpliesRel : p[1] \in S => p[2] \in S

TheDish      == sw_dishes[1]
TheCategory  == sw_types[1]
TheAllergens == sw_block.allergene[1]
TheMeatless  == sw_block.fleischlos[1]
OneDish      == sw_canteen # None /\ Len(sw_dishes) = 1

BaseTier(d) ==
    <<d.prices.students.base_price, d.prices.staff.base_price,
      d.prices.guests.base_price>>

SelfService == sw_canteen \notin {"MENSA_WEIHENSTEPHAN", "MENSA_LOTHSTR"}

SausageName(name) ==
    \/ Contains(<<"w", "u", "r", "s", "t">>, Lower(name))
    \/ Contains(<<"w", "ü", "r", "s", "t", "c", "h", "e", "n">>, Lower(name))

LiteralPrice(category) ==
    IF category \in DOMAIN prices_mensa_weihenstephan_mensa_lothstrasse
    THEN prices_mensa_weihenstephan_mensa_lothstrasse[category]
    ELSE Prices(BasePrice(0), BasePrice(0), BasePrice(0))

\* C7 as stated: in MENSA_WEIHENSTEPHAN and MENSA_LOTHSTR the price of every
\* dish is the triplet of the literal table for its category, all-zero when
\* the category is not in the table.
C7_LiteralTableAsStated ==
    (OneDish /\ ~SelfService) => TheDish.prices = LiteralPrice(TheCategory)

\* C7 as amended: this holds for every dish whose category is not "Beilagen";
\* a "Beilagen" dish gets the self-service side-dish price in these canteens too.
C7_LiteralTable ==
    (OneDish /\ ~SelfService /\ TheCategory # "Beilagen") =>
        TheDish.prices = LiteralPrice(TheCategory)

\* MENSA_LOTHSTR priced a dish whose category the table does not list.
C7_Witness ==
    /\ OneDish
    /\ sw_canteen = "MENSA_LOTHSTR"
    /\ TheCategory = "Fleisch"
    /\ TheMeatless = "0"
    /\ TheDish.prices.students = [base_price |-> 0, price_per_unit |-> <<>>, unit |-> None]
    /\ TheDish.prices.guests = TheDish.prices.students

\* ------------------------------------------------------------------------
\* C8
\* ------------------------------------------------------------------------
\* C8: a dish of category "Beilagen" gets base price 0 for all three classes
\* and the CLASSIC per-unit price, whatever its canteen, meatless flag,
\* markers and name are.
C8_SideDishPrice ==
    \A i \in DOMAIN sw_dishes :
        sw_dishes[i].dish_type = "Beilagen" =>
            sw_dishes[i].prices =
                [students |-> [base_price |-> 0, price_per_unit |-> <<90>>, unit |-> "100g"],
                 staff    |-> [base_price |-> 0, price_per_unit |-> <<115>>, unit |-> "100g"],
                 guests   |-> [base_price |-> 0, price_per_unit |-> <<160>>, unit |-> "100g"]]

\* A side dish named Currywurst, flagged "0", with fish allergen was priced.
C8_Witness ==
    /\ OneDish /\ SelfService
    /\ TheCategory = "Beilagen"
    /\ TheDish.name = Currywurst
    /\ TheMeatless = "0"
    /\ Contains(<<"F", "i">>, TheAllergens)
    /\ TheDish.prices.students.base_price = 0

\* ------------------------------------------------------------------------
\* C9
\* ------------------------------------------------------------------------
\* The stripped titles of the block, the list that is de-duplicated.
C9_Stripped == [i \in DOMAIN sw_block.titles |-> RStrip(sw_block.titles[i])]

C9_Occurrence(i) == Cardinality({j \in 1..i : C9_Stripped[j] = C9_Stripped[i]})

\* C9: de-duplication keeps length and order, leaves the first occurrence of
\* a name unchanged and appends " (k)" to its k-th occurrence, k >= 2; the
\* dishes carry these names; [Salat, Salat, Suppe, Salat] becomes
\* [Salat, Salat (2), Suppe, Salat (3)].
C9_Deduplication ==
    sw_canteen # None =>
        /\ Len(sw_names) = Len(sw_block.titles)
        /\ \A i \in DOMAIN sw_names :
              /\ C9_Occurrence(i) = 1 => sw_names[i] = C9_Stripped[i]
              /\ C9_Occurrence(i) >= 2 =>
                    sw_names[i] = C9_Stripped[i] \o <<" ", "(">>
                                     \o IntStr(C9_Occurrence(i)) \o <<")">>
        /\ \A i \in DOMAIN sw_dishes : sw_dishes[i].name = sw_names[i]
        /\ sw_block.titles = <<Salat, Salat, Suppe, Salat>> =>
              sw_names = <<Salat, Salat \o <<" ", "(", "2", ")">>, Suppe,
                           Salat \o <<" ", "(", "3", ")">>>>

\* The list of the example was de-duplicated.
C9_Witness ==
    /\ sw_canteen # None
    /\ sw_block.titles = <<Salat, Salat, Suppe, Salat>>
    /\ sw_names[4] = <<"S", "a", "l", "a", "t", " ", "(", "3", ")">>

\* ------------------------------------------------------------------------
\* C10
\* ------------------------------------------------------------------------
\* the lengths of the six zipped arrays
C10_Lengths ==
    {Len(sw_names), Len(sw_types), Len(sw_block.zusatz),
     Len(sw_block.allergene), Len(sw_block.typ), Len(sw_block.fleischlos)}

\* C10: the number of dishes is the minimum of the six array lengths, the
\* i-th dish is built from the i-th entry of each array, and arrays of
\* different lengths raise nothing.
C10_ShortestLengthTruncation ==
    sw_canteen # None =>
        /\ Len(sw_dishes) = SetMin(C10_Lengths)
        /\ \A i \in DOMAIN sw_dishes :
              /\ sw_dishes[i].name = sw_names[i]
              /\ sw_dishes[i].dish_type = sw_types[i]
              /\ sw_dishes[i] =
                    ParseDish(sw_canteen, sw_names[i], sw_types[i],
                              sw_block.zusatz[i], sw_block.allergene[i],
                              sw_block.typ[i], sw_block.fleischlos[i])

\* Arrays of different lengths produced a non-empty, truncated dish list.
C10_Witness ==
    /\ sw_canteen # None
    /\ Len(sw_names) = 4
    /\ Len(sw_types) = 2
    /\ Len(sw_block.allergene) = 1
    /\ Len(sw_block.zusatz) = 2
    /\ Len(sw_dishes) = 1
    /\ "FISH" \in sw_dishes[1].labels

\* ------------------------------------------------------------------------
\* Specification SpecPage: StudentenwerkMenuParser.parse on a rendered page
\* ------------------------------------------------------------------------
Date0101 == <<"0", "1", ".", "0", "1", ".", "2", "0", "2", "4">>
Date0201 == <<"0", "2", ".", "0", "1", ".", "2", "0", "2", "4">>
Date0301 == <<"0", "3", ".", "0", "1", ".", "2", "0", "2", "4">>
Heute    == <<"H", "e", "u", "t", "e">>

PageArrays ==
    {Block(<<Salat>>, <<"Fleisch">>, <<<<>>>>, <<<<>>>>, <<<<>>>>, <<"1">>),
     Block(<<Currywurst, Suppe>>, <<"Fleisch", "">>, <<<<>>, <<>>>>,
           <<<<>>, <<"F", "i">>>>, <<<<>>, <<>>>>, <<"0", "0">>)}

PageDateStrs == {<<>>, <<Date0101>>, <<Date0201>>, <<Date0301, Heute>>, <<Heute>>}

PageBlocks == {DayBlock(ds, a) : ds \in PageDateStrs, a \in PageArrays}

Pages ==
    {[fetch |-> f, blocks |-> <<>>] : f \in {"Timeout", "ConnectionError", "not ok", "empty"}}
        \cup {[fetch |-> "ok", blocks |-> bs] : bs \in SeqsUpTo(PageBlocks, MaxBlocks)}

page_fetch ==
    /\ RunIdle
    /\ \E page \in Pages : stw_fetch("MENSA_GARCHING", page)

InitPage == DateIdle /\ LabelIdle /\ MainIdle /\ StwIdle /\ DishIdle /\ RunIdle /\ TrIdle
NextPage ==
    \/ page_fetch
    \/ stw_block
    \/ stw_return
SpecPage == InitPage /\ [][NextPage]_vars

\* ------------------------------------------------------------------------
\* C11
\* ------------------------------------------------------------------------
\* The blocks of the page whose parsing raises.
FailingBlocks ==
    {i \in DOMAIN r_input.page.blocks :
        get_menu(r_input.page.blocks[i], r_input.canteen).error # ""}

PageReturned == r_parser = "StudentenwerkMenuParser" /\ r_pc = "returned"

\* C11: when the parsing of a day block raises, the menus of all the other
\* blocks of the page, before and after it, are in the mapping parse returns.
C11_OnlyFailingDaySkipped ==
    (PageReturned /\ r_input.page.fetch = "ok") =>
        \A i \in DOMAIN r_input.page.blocks \ FailingBlocks :
            LET menu == get_menu(r_input.page.blocks[i], r_input.canteen).menu[1]
            IN menu.menu_date \in DOMAIN r_result[1]

\* ------------------------------------------------------------------------
\* Specification SpecText: FMIBistroMenuParser.get_menus on the relevant text
\* ------------------------------------------------------------------------
Spaces(n) == [i \in 1..n |-> " "]

\* A column of a priced line, 20 wide: the label codes at its begin, the price
\* and the currency sign at its end.
PricedCell == <<"a", "W">> \o Spaces(13) \o <<"1", ",", "5", " ", Euro>>

\* A title line: a title in the Monday and in the Friday column (49 wide).
TitleLine == Suppe \o Spaces(4 * 49 - Len(Suppe)) \o Salat

\* Priced lines: a price for Monday only, and for every weekday but Monday.
PricedMondayOnly == PricedCell \o Spaces(79) \o <<Euro>>
PricedNoMonday   == Spaces(20) \o PricedCell \o PricedCell \o PricedCell \o PricedCell

TextLines == {TitleLine, PricedMondayOnly, PricedNoMonday}

fmi_text ==
    /\ RunIdle
    /\ \E lines \in SeqsUpTo(TextLines, MaxTextLines) : fmi_get_menus(lines, 2024, 2)

InitText == DateIdle /\ LabelIdle /\ MainIdle /\ StwIdle /\ DishIdle /\ RunIdle /\ TrIdle
NextText ==
    \/ fmi_text
    \/ fmi_day
    \/ fmi_return
SpecText == InitText /\ [][NextText]_vars

\* ------------------------------------------------------------------------
\* C12
\* ------------------------------------------------------------------------
\* The number of priced lines of the text
PricedLines(lines) == Cardinality({i \in DOMAIN lines : Contains(<<Euro>>, lines[i])})

\* C12: when the relevant text contains a fifth priced line, get_menus does not
\* return: it fails with ParsingError, whatever the weekday columns hold.
C12_FifthPricedLineIsHardError ==
    (r_parser = "FMIBistroMenuParser" /\ PricedLines(r_input.lines) >= 5) =>
        r_pc # "returned"

\* ------------------------------------------------------------------------
\* C13
\* ------------------------------------------------------------------------
\* The weekdays (0 = Monday) for which some priced line of the text holds no
\* price token in the column window
WeekdaysWithoutPrice(lines) ==
    {w \in 0..4 : \E i \in DOMAIN lines :
        /\ Contains(<<Euro>>, lines[i])
        /\ __get_label_str_and_price(w, lines[i]) = <<>>}

\* C13: a priced line without a price token in the column window of a weekday
\* means no dish that day: the menus get_menus returns have no entry for that
\* weekday.
C13_MissingPriceMeansNoDish ==
    (r_parser = "FMIBistroMenuParser" /\ r_pc = "returned") =>
        \A w \in WeekdaysWithoutPrice(r_input.lines) :
            Some(r_input.dates[w + 1]) \notin DOMAIN r_result[1]

\* ------------------------------------------------------------------------
\* Specification SpecPdf: MedizinerMensaMenuParser.parse
\* ------------------------------------------------------------------------
\* File names "KW_<week>_..._<year>.pdf" and variations of them
PdfNames ==
    {prefix \o week \o middle \o dash \o year \o <<".", "p", "d", "f">> :
        prefix \in {<<"K", "W", "_">>, <<"k", "w", "_">>, <<"X", "X", "_">>},
        week   \in {<<"4">>, <<"0", "4">>},
        middle \in {<<"_", "x", "_">>, <<"_">>},
        dash   \in {<<>>, <<"-">>},
        year   \in SeqsUpTo({"0", "2"}, MaxYearDigits)}

\* A line of the text of a day: the soup column, 40 wide, and the column of
\* the main dishes
PdfLine(soup, mains) == soup \o [i \in 1..(40 - Len(soup)) |-> " "] \o mains

SoupCells == {<<>>, Feiertag, Suppe \o <<" ", "1", ",", "5", "0", "€">>}
MainCells == {<<>>, Feiertag, Salat, <<"E", "x", "t", "r", "a", "e", "s", "s", "e", "n">>}

\* The texts of a day: up to MaxDayLines lines of two cells
PdfDays == SeqsUpTo({PdfLine(soup, mains) : soup \in SoupCells, mains \in MainCells},
                    MaxDayLines)

\* a day with a priced soup and a main dish
OrdinaryDay == <<PdfLine(Suppe \o <<" ", "1", ",", "5", "0", "€">>, Salat)>>

\* The texts pdftotext gives: without the seven days; of seven ordinary days;
\* and with any day text on Monday or on Sunday, with and without a line of
\* dish types.
PdfPlainTexts ==
    {[dish_types |-> <<>>, days |-> <<>>],
     [dish_types |-> <<>>, days |-> [k \in 1..7 |-> OrdinaryDay]]}

PdfTexts ==
    PdfPlainTexts \cup
    {[dish_types |-> dish_types, days |-> [k \in 1..7 |-> IF k = h THEN day ELSE OrdinaryDay]] :
        dish_types \in {<<>>, <<"Suppe", "Hauptgericht">>}, h \in {1, 7}, day \in PdfDays}

\* The start page: no link, one link, or the same link twice
PdfHrefs == {<<>>} \cup {<<name>> : name \in PdfNames}
                \cup {<<name, name>> : name \in {<<"K", "W", "_", "4", "_", "_", "1", "2">>}}

\* "KW_4_x_2022.pdf"
PdfOfWeek4 ==
    <<"K", "W", "_", "4", "_", "x", "_", "2", "0", "2", "2", ".", "p", "d", "f">>

med_parse ==
    /\ RunIdle
    /\ \E hrefs \in PdfHrefs, response \in {"ok", "Timeout"}, text \in PdfTexts :
        /\ response = "ok" \/ text.days = <<>>
        /\ hrefs = <<PdfOfWeek4>> \/ text \in PdfPlainTexts
        /\ med_parse_start("ok", hrefs, response, text)

med_parse_no_page ==
    /\ RunIdle
    /\ \E start \in {"Timeout", "ConnectionError"} :
        med_parse_start(start, <<>>, "ok", [dish_types |-> <<>>, days |-> <<>>])

InitPdf == DateIdle /\ LabelIdle /\ MainIdle /\ StwIdle /\ DishIdle /\ RunIdle /\ TrIdle
NextPdf ==
    \/ med_parse
    \/ med_parse_no_page
    \/ med_parse_pdf
SpecPdf == InitPdf /\ [][NextPdf]_vars

\* ------------------------------------------------------------------------
\* C14
\* ------------------------------------------------------------------------
\* The file name step of parse has acted.
FilenameParsed ==
    /\ r_parser = "MedizinerMensaMenuParser" /\ r_pc \in {"returned", "raised"}
    /\ r_input.start = "ok" /\ Len(r_input.hrefs) = 1

\* C14: a file name of the pattern with a year of two digits gives the year
\* "20" followed by the two digits, a year of four digits is kept; a file name
\* that does not match, or whose year has neither two nor four digits, raises
\* RuntimeError before the PDF is requested.
C14_FilenameYear ==
    FilenameParsed =>
        LET match == wn_year_match(r_input.hrefs[1])
            year  == IF match = <<>> THEN <<>> ELSE match[1].group2
        IN /\ Len(year) = 2 =>
                "GET pdf_url" \in Range(r_log) /\ r_i = 2000 + DecVal(year)
           /\ Len(year) = 4 =>
                "GET pdf_url" \in Range(r_log) /\ r_i = DecVal(year)
           /\ Len(year) \notin {2, 4} =>
                r_error = "RuntimeError" /\ "GET pdf_url" \notin Range(r_log)

\* ------------------------------------------------------------------------
\* Specification SpecRows: StraubingMensaMenuParser.parse_menu
\* ------------------------------------------------------------------------
Price150 == <<"1", ",", "5", "0">>

CsvRows ==
    {Row(date, "Suppe", title, <<>>, Price150, Price150, Price150) :
        date \in {Date0101, Date0201}, title \in {Suppe, Salat}}
      \cup {Row(Date0101, "Suppe", Suppe, <<>>, <<"x">>, Price150, Price150),
            Row(Heute, "Suppe", Suppe, <<>>, Price150, Price150, Price150)}

rows_parse_menu ==
    /\ RunIdle
    /\ \E rows \in SeqsUpTo(CsvRows, MaxRows) : csv_parse_menu(rows)

InitRows == DateIdle /\ LabelIdle /\ MainIdle /\ StwIdle /\ DishIdle /\ RunIdle /\ TrIdle
NextRows ==
    \/ rows_parse_menu
SpecRows == InitRows /\ [][NextRows]_vars

\* ------------------------------------------------------------------------
\* C15
\* ------------------------------------------------------------------------
\* The maximal runs <<a, b>> of consecutive rows that share a date
DateRuns(rows) ==
    {ab \in (DOMAIN rows) \X (DOMAIN rows) :
        /\ ab[1] <= ab[2]
        /\ \A i \in ab[1]..ab[2] : rows[i][1] = rows[ab[1]][1]
        /\ ab[1] > 1 => rows[ab[1] - 1][1] # rows[ab[1]][1]
        /\ ab[2] < Len(rows) => rows[ab[2] + 1][1] # rows[ab[1]][1]}

\* The dishes of the rows a..b in row order
RECURSIVE DishesOfRows(_, _, _)
DishesOfRows(rows, a, b) ==
    IF a > b THEN <<>>
    ELSE Straubing_parse_dish(rows[a]).dishes \o DishesOfRows(rows, a + 1, b)

ParseMenuReturned == r_parser = "StraubingMensaMenuParser.parse_menu" /\ r_pc = "returned"

\* C15: parse_menu returns one Menu per distinct date of the rows; every run of
\* consecutive rows that share a date forms one Menu, in row order, so that rows
\* of different dates are never in the same Menu.
C15_OneMenuPerDate ==
    ParseMenuReturned =>
        /\ DOMAIN r_result[1] = {Some(parse_date(r_input.rows[i][1])) : i \in DOMAIN r_input.rows}
        /\ \A ab \in DateRuns(r_input.rows) :
              r_result[1][Some(parse_date(r_input.rows[ab[1]][1]))].dishes
                  = DishesOfRows(r_input.rows, ab[1], ab[2])

\* ------------------------------------------------------------------------
\* Specification SpecCsv: StraubingMensaMenuParser.parse
\* ------------------------------------------------------------------------
Date0801 == <<"0", "8", ".", "0", "1", ".", "2", "0", "2", "4">>
Date0901 == <<"0", "9", ".", "0", "1", ".", "2", "0", "2", "4">>
Date1501 == <<"1", "5", ".", "0", "1", ".", "2", "0", "2", "4">>

\* today is 10.01.2024, in ISO week 2
CsvToday == Ymd2Ord(2024, 1, 10)

\* a today in the last ISO week of its year: 27.12.2023, in week 52 of 52
CsvYearEnd == Ymd2Ord(2023, 12, 27)

SoupRow(date) == Row(date, "Suppe", Suppe, <<>>, Price150, Price150, Price150)

\* Answers of the server: files of this week, of next week, of the week that ends
\* seven days ago, of an older week, an empty file, a file with a text in place
\* of the date, no file, and no answer.
CsvBatches ==
    {[fetch |-> "ok", rows |-> rows] :
        rows \in {<<SoupRow(Date0801), SoupRow(Date0901)>>, <<SoupRow(Date1501)>>,
                  <<SoupRow(Date0301)>>, <<SoupRow(Date0201), SoupRow(Date0801)>>,
                  <<>>, <<SoupRow(Heute)>>}}
      \cup {[fetch |-> f, rows |-> <<>>] : f \in {"not ok", "Timeout"}}

csv_parse ==
    /\ RunIdle
    /\ \E today \in {CsvToday, CsvYearEnd}, batches \in SeqsUpTo(CsvBatches, MaxWeeks) :
          csv_parse_start(today, batches)

InitCsv == DateIdle /\ LabelIdle /\ MainIdle /\ StwIdle /\ DishIdle /\ RunIdle /\ TrIdle
NextCsv ==
    \/ csv_parse
    \/ csv_parse_week
SpecCsv == InitCsv /\ [][NextCsv]_vars

\* The while loop of parse runs on: an iteration that can be taken is taken.
SpecCsvLive == InitCsv /\ [][NextCsv]_vars /\ WF_vars(csv_parse_week)

\* ------------------------------------------------------------------------
\* C16
\* ------------------------------------------------------------------------
\* The fetch of the file failed.
FailedFetch(page) == page.fetch # "ok"

\* The file is dated before today - 7 days.
OldBatch(page, today) ==
    /\ page.fetch = "ok" /\ page.rows # <<>>
    /\ parse_date(page.rows[1][1]) # ValueError
    /\ parse_date(page.rows[1][1]) < today - 7

\* The file is fetched and parsed, and is not old.
GoodBatch(page, today) ==
    /\ page.fetch = "ok" /\ page.rows # <<>>
    /\ parse_date(page.rows[1][1]) # ValueError
    /\ parse_date(page.rows[1][1]) >= today - 7
    /\ parse_menu(page.rows).error = ""

\* The menus of the files 1..n
RECURSIVE Collected(_, _)
Collected(batches, n) ==
    IF n = 0 THEN <<>>
    ELSE DictUpdate(Collected(batches, n - 1), parse_menu(batches[n].rows).menus)

\* The positions at which the scan meets an old file or a failed fetch after
\* good files only
StopPositions(batches, today) ==
    {i \in 1..(Len(batches) + 1) :
        /\ \A j \in 1..(i - 1) : GoodBatch(batches[j], today)
        /\ FailedFetch(Fetch(batches, i)) \/ OldBatch(Fetch(batches, i), today)}

CsvEnded == r_parser = "StraubingMensaMenuParser" /\ r_pc \in {"returned", "raised"}

\* C16: the scan stops at the first file dated before today - 7 days or at the
\* first failed fetch; that file adds nothing, and parse returns the menus that
\* it collected from the files before it.
C16_ForwardScanStops ==
    CsvEnded =>
        \A i \in StopPositions(r_input.batches, r_input.today) :
            /\ r_pc = "returned"
            /\ r_result = Some(Collected(r_input.batches, i - 1))

\* ------------------------------------------------------------------------
\* Specification SpecFetch: parse of the parsers that fetch their source
\* ------------------------------------------------------------------------
ApiDate0801 == <<"2", "0", "2", "4", "-", "0", "1", "-", "0", "8">>
ApiDate0901 == <<"2", "0", "2", "4", "-", "0", "1", "-", "0", "9">>

ApiMeals ==
    <<[name |-> Suppe, prices |-> [students |-> 350, employees |-> 450, others |-> 550],
       category |-> "Hauptgericht"]>>

ApiDays ==
    {[date |-> date, closed |-> FALSE, fetch |-> f, meals |-> IF f = "ok" THEN ApiMeals ELSE <<>>] :
        date \in {ApiDate0801, ApiDate0901}, f \in {"ok", "not ok", "Timeout"}}
      \cup {[date |-> ApiDate0901, closed |-> TRUE, fetch |-> "ok", meals |-> <<>>]}

heil_parse ==
    /\ RunIdle
    /\ \E days \in SeqsUpTo(ApiDays, MaxDays) : heil_parse_start([fetch |-> "ok", days |-> days])

heil_parse_no_days ==
    /\ RunIdle
    /\ \E f \in {"not ok", "Timeout", "ConnectionError"} :
        heil_parse_start([fetch |-> f, days |-> <<>>])

InitFetch == DateIdle /\ LabelIdle /\ MainIdle /\ StwIdle /\ DishIdle /\ RunIdle /\ TrIdle
NextFetch ==
    \/ page_fetch
    \/ stw_block
    \/ stw_return
    \/ med_parse
    \/ med_parse_no_page
    \/ med_parse_pdf
    \/ csv_parse
    \/ csv_parse_week
    \/ heil_parse
    \/ heil_parse_no_days
    \/ heil_parse_day
    \/ heil_parse_return
SpecFetch == InitFetch /\ [][NextFetch]_vars

\* ------------------------------------------------------------------------
\* C17
\* ------------------------------------------------------------------------
\* The exceptions of a failed fetch: of the request, and of reading an answer
\* that has no success status
FetchFailures == {"Timeout", "ConnectionError", "JSONDecodeError"}

\* C17: for every parser a failed fetch never propagates out of parse.
C17_FetchFailureNeverPropagates ==
    r_pc = "raised" => r_error \notin FetchFailures

\* ------------------------------------------------------------------------
\* C18
\* ------------------------------------------------------------------------
\* The day blocks whose date string is there and cannot be parsed
UnparseableBlocks ==
    {i \in DOMAIN r_input.page.blocks :
        /\ r_input.page.blocks[i].date_strs # <<>>
        /\ parse_date(r_input.page.blocks[i].date_strs[1]) = ValueError}

WeekDates ==
    {Ymd2Ord(2023, 1, 9), Ymd2Ord(2023, 1, 10), Ymd2Ord(2024, 1, 8), Ymd2Ord(2024, 1, 9),
     Ymd2Ord(2024, 1, 15), Ymd2Ord(2024, 12, 30), Ymd2Ord(2025, 1, 2)}

weeks_call ==
    /\ RunIdle
    /\ \E dates \in SUBSET WeekDates, collision \in {"join", "replace"} :
        weeks_to_weeks([date \in {Some(d) : d \in dates} |-> Menu(date, <<>>)], collision)

InitWeeks == DateIdle /\ LabelIdle /\ MainIdle /\ StwIdle /\ DishIdle /\ RunIdle /\ TrIdle
NextWeeks ==
    \/ weeks_call
    \/ weeks_jsonify
SpecWeeks == InitWeeks /\ [][NextWeeks]_vars

\* ------------------------------------------------------------------------
\* C19
\* ------------------------------------------------------------------------
\* The dates of the mapping given to to_weeks
InputDates == {date[1] : date \in DOMAIN r_input.menus}

\* The Weeks of the result that hold the date
WeeksOf(date) == {w \in DOMAIN r_menus : date \in DOMAIN r_menus[w].days}

\* C19: to_weeks partitions the mapping by (ISO year, ISO week): every date is
\* in exactly one Week, the Week of its ISO year and week; a Week holds exactly
\* the dates of its week and year; weeks of the same number of different years
\* are not in the same Week nor in the same file.
C19_WeeksPartition ==
    (r_parser = "Week" /\ r_pc \in {"weeks", "returned"}) =>
        /\ \A date \in InputDates :
              /\ Cardinality(WeeksOf(date)) = 1
              /\ \A w \in WeeksOf(date) :
                    /\ r_menus[w].year = IsoCalendar(date)[1]
                    /\ r_menus[w].calendar_week = IsoCalendar(date)[2]
        /\ \A w \in DOMAIN r_menus :
              DOMAIN r_menus[w].days =
                  {date \in InputDates : /\ IsoCalendar(date)[1] = r_menus[w].year
                                         /\ IsoCalendar(date)[2] = r_menus[w].calendar_week}
        /\ r_pc = "returned" =>
              \A path \in DOMAIN r_result[1] :
                  \A date \in r_result[1][path] : IsoCalendar(date)[1] = path[1]

translate_text(text) ==
    CASE text = "Suppe" -> "Soup"
      [] text = "Salat" -> "Salad"
      [] OTHER          -> text

\* The state a Translator call works on and leaves: the cache, the texts sent
\* to the service call by call, the number of service calls that still succeed
\* (quota), and the exception raised, "" when none.
TranslatorState(cache, sent, quota) ==
    [cache |-> cache, sent |-> sent, quota |-> quota, error |-> ""]

\* dict(zip(originals, translations, strict=False)) written into the cache
ZipIntoCache(cache, originals, translations) ==
    LET n == IF Len(originals) < Len(translations) THEN Len(originals) ELSE Len(translations)
        new == {originals[i] : i \in 1..n}
    IN [t \in DOMAIN cache \cup new |->
           IF t \in new THEN translations[CHOOSE i \in 1..n : originals[i] = t]
           ELSE cache[t]]

\* A slip: prefetch sends every text, cached or not.
prefetch_without_cache_test(st, texts) ==
    LET to_translate == texts
        order  == CHOOSE o \in Orders(to_translate) : TRUE
        result == [i \in DOMAIN order |-> translate_text(order[i])]
    IN IF st.error # "" \/ to_translate = {} THEN st
       ELSE IF st.quota = 0
       THEN [st EXCEPT !.sent = Append(@, to_translate), !.error = "DeepLException"]
       ELSE [st EXCEPT !.sent = Append(@, to_translate), !.quota = @ - 1,
                       !.cache = ZipIntoCache(@, order, result)]

\* Translator.prefetch(texts)
Translator_prefetch(st, texts) ==
    LET to_translate == {text \in texts : text \notin DOMAIN st.cache}
        order  == CHOOSE o \in Orders(to_translate) : TRUE
        result == [i \in DOMAIN order |-> translate_text(order[i])]
    IN IF st.error # "" \/ to_translate = {} THEN st
       ELSE IF st.quota = 0
       THEN [st EXCEPT !.sent = Append(@, to_translate), !.error = "DeepLException"]
       ELSE [st EXCEPT !.sent = Append(@, to_translate), !.quota = @ - 1,
                       !.cache = ZipIntoCache(@, order, result)]

\* Translator.translate(text): the state it leaves and the text it returns
Translator_translate(st, text) ==
    IF st.error # "" THEN [st |-> st, text |-> text]
    ELSE IF text \in DOMAIN st.cache THEN [st |-> st, text |-> st.cache[text]]
    ELSE IF st.quota = 0
    THEN [st |-> [st EXCEPT !.sent = Append(@, {text}), !.error = "DeepLException"],
          text |-> text]
    ELSE [st |-> [st EXCEPT !.sent = Append(@, {text}), !.quota = @ - 1,
                            !.cache = ZipIntoCache(@, <<text>>, <<translate_text(text)>>)],
          text |-> translate_text(text)]

\* A slip: the translation is also written to the category of the dish.
RECURSIVE TranslateDishesAndCategory(_, _, _)
TranslateDishesAndCategory(st, dishes, done) ==
    IF dishes = <<>> \/ st.error # "" THEN [st |-> st, dishes |-> done \o dishes]
    ELSE LET got == Translator_translate(st, Head(dishes).name)
         IN TranslateDishesAndCategory(got.st, Tail(dishes),
                Append(done, [Head(dishes) EXCEPT !.name = got.text, !.dish_type = got.text]))

\* the inner loop of translate_days over the dishes of a day
RECURSIVE TranslateDishes(_, _, _)
TranslateDishes(st, dishes, done) ==
    IF dishes = <<>> \/ st.error # "" THEN [st |-> st, dishes |-> done \o dishes]
    ELSE LET got == Translator_translate(st, Head(dishes).name)
         IN TranslateDishes(got.st, Tail(dishes),
                            Append(done, [Head(dishes) EXCEPT !.name = got.text]))

\* the outer loop of translate_days over the days
RECURSIVE TranslateDaysLoop(_, _, _)
TranslateDaysLoop(st, days, done) ==
    IF days = <<>> \/ st.error # "" THEN [st |-> st, days |-> done \o days]
    ELSE LET got == TranslateDishes(st, Head(days).dishes, <<>>)
         IN TranslateDaysLoop(got.st, Tail(days),
                              Append(done, [Head(days) EXCEPT !.dishes = got.dishes]))

\* translate_days(data, translator): the state it leaves and data as mutated
translate_days(st, data) ==
    IF st.error # "" THEN [st |-> st, data |-> data]
    ELSE IF "days" \notin DOMAIN data
    THEN [st |-> [st EXCEPT !.error = "KeyError"], data |-> data]
    ELSE LET names == UNION {{day.dishes[j].name : j \in DOMAIN day.dishes} :
                                 day \in Range(data.days)}
             got   == TranslateDaysLoop(Translator_prefetch(st, names), data.days, <<>>)
         IN [st |-> got.st, data |-> [data EXCEPT !.days = got.days]]

\* `for week in weeks: translate_days(week, translator)`
RECURSIVE TranslateWeeks(_, _, _)
TranslateWeeks(st, weeks, done) ==
    IF weeks = <<>> \/ st.error # "" THEN [st |-> st, weeks |-> done \o weeks]
    ELSE LET got == translate_days(st, Head(weeks))
         IN TranslateWeeks(got.st, Tail(weeks), Append(done, got.data))

\* `for canteen in data["canteens"]: for week in canteen["weeks"]: ...`
RECURSIVE TranslateCanteens(_, _, _)
TranslateCanteens(st, all, done) ==
    IF all = <<>> \/ st.error # "" THEN [st |-> st, canteens |-> done \o all]
    ELSE LET got == TranslateWeeks(st, Head(all).weeks, <<>>)
         IN TranslateCanteens(got.st, Tail(all),
                              Append(done, [Head(all) EXCEPT !.weeks = got.weeks]))

\* translate_file(input_path, output_path, translator) on the file
\* [name, data]: the state it leaves and what it wrote, <<>> when it raised
translate_file(st, file) ==
    LET data == file.data
        got  == CASE file.name = "all.json" ->
                       IF "canteens" \notin DOMAIN data
                       THEN [st |-> [st EXCEPT !.error = "KeyError"], data |-> data]
                       ELSE LET all == TranslateCanteens(st, data.canteens, <<>>)
                            IN [st |-> all.st, data |-> [data EXCEPT !.canteens = all.canteens]]
                  [] file.name = "combined.json" ->
                       IF "weeks" \notin DOMAIN data
                       THEN [st |-> [st EXCEPT !.error = "KeyError"], data |-> data]
                       ELSE LET combined == TranslateWeeks(st, data.weeks, <<>>)
                            IN [st |-> combined.st, data |-> [data EXCEPT !.weeks = combined.weeks]]
                  [] OTHER -> translate_days(st, data)
    IN [st |-> got.st, written |-> IF got.st.error = "" THEN <<got.data>> ELSE <<>>]

\* ------------------------------------------------------------------------
\* Specification SpecTranslate: calls of the Translator and of translate_file
\* as the tests make them, and runs of translate.main
\* ------------------------------------------------------------------------
TrNames == {"Suppe", "Salat"}

\* The cache files: a translation per cached name, the one the service gives
\* now or an older one.
TrCaches ==
    UNION {[S -> {"Soup", "Salad", "Broth"}] : S \in SUBSET TrNames}

\* A dish, a day and a week of the canonical shape
TrDish(name, k) ==
    [name |-> name, dish_type |-> IF k = 1 THEN "Suppe" ELSE "Tagesgericht",
     labels |-> IF k = 1 THEN {"VEGAN", "VEGETARIAN"} ELSE {},
     prices |-> [students |-> 100 * k, staff |-> 150 * k, guests |-> 200 * k]]

TrDay(names, i) ==
    [date |-> Ymd2Ord(2024, 7, 28 + i), dishes |-> [k \in DOMAIN names |-> TrDish(names[k], k)]]

TrWeek(days) ==
    [number |-> 31, year |-> 2024, version |-> "2.1",
     days |-> [i \in DOMAIN days |-> TrDay(days[i], i)]]

TrWeeks == {TrWeek(days) : days \in SeqsUpTo(SeqsUpTo(TrNames, MaxTrDishes), MaxTrDays)}

\* weeks of one day, for the files that hold several weeks
TrShortWeeks == {TrWeek(<<names>>) : names \in SeqsUpTo(TrNames, MaxTrDishes)}

\* a JSON file that is no week: it has no "days"
TrNoWeek == [canteen_id |-> "mensa-garching", version |-> "2.1"]

TrFiles ==
    {[name |-> "week_31.json", data |-> week] : week \in TrWeeks}
    \cup {[name |-> "combined.json",
           data |-> [canteen_id |-> "mensa-garching", version |-> "2.1",
                     weeks |-> <<w1, w2>>]] : w1, w2 \in TrShortWeeks}
    \cup {[name |-> "all.json",
           data |-> [canteens |-> <<[canteen_id |-> "mensa-garching", version |-> "2.1",
                                     weeks |-> <<w1>>],
                                    [canteen_id |-> "mensa-arcisstr", version |-> "2.1",
                                     weeks |-> <<w2>>]>>]] : w1, w2 \in TrShortWeeks}
    \cup {[name |-> "canteens.json", data |-> TrNoWeek]}

\* translator = Translator(...); translator.load_cache() (test_translate.py:23-24)
tr_new ==
    /\ TrIdle
    /\ \E cache \in TrCaches :
        /\ tr_disk' = <<cache>>
        /\ tr_cache' = cache
    /\ tr_pc' = "ready"
    /\ UNCHANGED <<tr_input, tr_i, tr_sent, tr_last, tr_files, tr_error>>
    /\ UNCHANGED <<dateVars, labelVars, mainVars, stwVars, dishVars, runVars>>

\* What a call on the translator leaves behind.
TrAfterCall(st) ==
    /\ tr_cache' = st.cache
    /\ tr_sent' = st.sent
    /\ tr_error' = st.error
    /\ tr_pc' = IF st.error # "" THEN "raised" ELSE "ready"
    /\ tr_i' = tr_i + 1

\* translator.prefetch(texts)
tr_prefetch ==
    /\ tr_pc = "ready" /\ tr_i < MaxCalls
    /\ \E texts \in SUBSET TrNames, quota \in 0..1 :
        \E st \in {Translator_prefetch(TranslatorState(tr_cache, tr_sent, quota), texts)} :
            TrAfterCall(st)
    /\ UNCHANGED <<tr_input, tr_last, tr_files, tr_disk>>
    /\ UNCHANGED <<dateVars, labelVars, mainVars, stwVars, dishVars, runVars>>

\* translator.translate(text)
tr_translate ==
    /\ tr_pc = "ready" /\ tr_i < MaxCalls
    /\ \E text \in TrNames, quota \in 0..1 :
        \E got \in {Translator_translate(TranslatorState(tr_cache, tr_sent, quota), text)} :
            TrAfterCall(got.st)
    /\ UNCHANGED <<tr_input, tr_last, tr_files, tr_disk>>
    /\ UNCHANGED <<dateVars, labelVars, mainVars, stwVars, dishVars, runVars>>

\* translate_file(input_file, output, translator) (test_translate.py:27)
tr_translate_file ==
    /\ tr_pc = "ready" /\ tr_i < MaxCalls
    /\ tr_last = <<>>
    /\ \E file \in TrFiles, quota \in 0..2 :
        \E got \in {translate_file(TranslatorState(tr_cache, tr_sent, quota), file)} :
            /\ TrAfterCall(got.st)
            /\ tr_last' = <<[input |-> file, written |-> got.written,
                             cache |-> tr_cache, sent |-> Len(tr_sent)]>>
            /\ tr_files' = tr_files \o got.written
    /\ UNCHANGED <<tr_input, tr_disk>>
    /\ UNCHANGED <<dateVars, labelVars, mainVars, stwVars, dishVars, runVars>>

\* The JSON files input_dir.rglob finds: weeks, a file of two weeks, a file
\* that is no week, and a file that lies under the output directory.
MainFiles ==
    {[name |-> "week_31.json", data |-> TrWeek(<<<<name>>>>), in_output |-> FALSE] :
        name \in TrNames}
    \cup {[name |-> "combined.json", in_output |-> FALSE,
           data |-> [canteen_id |-> "mensa-garching", version |-> "2.1",
                     weeks |-> <<TrWeek(<<<<"Suppe">>>>), TrWeek(<<<<"Salat">>>>)>>]],
          [name |-> "canteens.json", data |-> TrNoWeek, in_output |-> FALSE],
          [name |-> "week_30.json", data |-> TrWeek(<<<<"Salat">>>>), in_output |-> TRUE]}

\* translate.main up to the loop over the files: the Translator and its cache
tr_main ==
    /\ TrIdle
    /\ \E files \in SeqsUpTo(MainFiles, MaxFiles), no_cache \in BOOLEAN,
          disk \in {<<>>, <<[text \in {"Suppe"} |-> "Broth"]>>} :
        /\ tr_input' = [files |-> files, no_cache |-> no_cache]
        /\ tr_disk' = disk
        /\ tr_cache' = IF disk # <<>> THEN disk[1] ELSE <<>>
        /\ tr_pc' = IF files = <<>> THEN "main_save" ELSE "main_files"
    /\ tr_i' = 1
    /\ UNCHANGED <<tr_sent, tr_last, tr_files, tr_error>>
    /\ UNCHANGED <<dateVars, labelVars, mainVars, stwVars, dishVars, runVars>>

\* one pass of `for json_file in input_dir.rglob("*.json")` with the except
\* clause for deepl.exceptions.DeepLException around the loop
tr_main_file ==
    /\ tr_pc = "main_files"
    /\ LET file == tr_input.files[tr_i]
           next == IF tr_i = Len(tr_input.files) THEN "main_save" ELSE "main_files"
       IN IF file.in_output
          THEN /\ tr_pc' = next
               /\ UNCHANGED <<tr_cache, tr_sent, tr_files, tr_error>>
          ELSE \E quota \in 0..2 :
                 \E got \in {translate_file(TranslatorState(tr_cache, tr_sent, quota),
                                            [name |-> file.name, data |-> file.data])} :
                    /\ tr_cache' = got.st.cache
                    /\ tr_sent' = got.st.sent
                    /\ tr_files' = tr_files \o got.written
                    /\ tr_pc' = CASE got.st.error = "" -> next
                                  [] got.st.error = "DeepLException" -> "main_save"
                                  [] OTHER -> "main_raised"
                    /\ tr_error' = got.st.error
    /\ tr_i' = tr_i + 1
    /\ UNCHANGED <<tr_input, tr_last, tr_disk>>
    /\ UNCHANGED <<dateVars, labelVars, mainVars, stwVars, dishVars, runVars>>

\* `if not args.no_cache: translator.save_cache()`
tr_main_save ==
    /\ tr_pc = "main_save"
    /\ tr_disk' = IF tr_input.no_cache THEN tr_disk ELSE <<tr_cache>>
    /\ tr_pc' = "main_exited"
    /\ UNCHANGED <<tr_input, tr_i, tr_cache, tr_sent, tr_last, tr_files, tr_error>>
    /\ UNCHANGED <<dateVars, labelVars, mainVars, stwVars, dishVars, runVars>>

InitTranslate == DateIdle /\ LabelIdle /\ MainIdle /\ StwIdle /\ DishIdle /\ RunIdle /\ TrIdle
NextTranslate ==
    \/ tr_new
    \/ tr_prefetch
    \/ tr_translate
    \/ tr_translate_file
    \/ tr_main
    \/ tr_main_file
    \/ tr_main_save
SpecTranslate == InitTranslate /\ [][NextTranslate]_vars

\* ------------------------------------------------------------------------
\* C22
\* ------------------------------------------------------------------------
\* The record out is the record in but for the field named.
SameBut(in, out, field) ==
    /\ DOMAIN out = DOMAIN in
    /\ \A f \in DOMAIN in \ {field} : out[f] = in[f]

\* The list out has the length of the list in and element by element Same holds.
SameList(in, out, Same(_, _)) ==
    /\ Len(out) = Len(in)
    /\ \A i \in DOMAIN in : Same(in[i], out[i])

\* The week out is the week in with every dish name replaced by its entry of
\* the cache.
SameWeekTranslated(in, out) ==
    LET SameDish(d, e) == /\ SameBut(d, e, "name")
                          /\ d.name \in DOMAIN tr_cache /\ e.name = tr_cache[d.name]
        SameDay(d, e)  == SameBut(d, e, "dishes") /\ SameList(d.dishes, e.dishes, SameDish)
    IN SameBut(in, out, "days") /\ SameList(in.days, out.days, SameDay)

\* translate_file has written its output.
FileTranslated == tr_last # <<>> /\ tr_last[1].written # <<>>

\* C22: the file translate_file writes is its input with only the name of each
\* dish rewritten: the same weeks, days and dishes in the same order, every
\* other field equal, and each name replaced by the translation the cache
\* holds for the untranslated string.
C22_OnlyNamesRewritten ==
    FileTranslated =>
        LET in  == tr_last[1].input.data
            out == tr_last[1].written[1]
            SameWeeks(c, d) == /\ SameBut(c, d, "weeks")
                               /\ SameList(c.weeks, d.weeks, SameWeekTranslated)
        IN CASE tr_last[1].input.name = "all.json" ->
                    /\ SameBut(in, out, "canteens")
                    /\ SameList(in.canteens, out.canteens, SameWeeks)
             [] tr_last[1].input.name = "combined.json" -> SameWeeks(in, out)
             [] OTHER -> SameWeekTranslated(in, out)

\* a week of two days was written with a name from the cache file ("Broth")
\* and a name from the service
C22_Witness ==
    /\ FileTranslated
    /\ tr_last[1].input.name = "week_31.json"
    /\ Len(tr_last[1].written[1].days) = 2
    /\ \E i \in 1..2 : \E j \in DOMAIN tr_last[1].written[1].days[i].dishes :
           tr_last[1].written[1].days[i].dishes[j].name = "Broth"
    /\ \E i \in 1..2 : \E j \in DOMAIN tr_last[1].written[1].days[i].dishes :
           tr_last[1].written[1].days[i].dishes[j].name = "Salad"
    /\ "Salat" \notin DOMAIN tr_last[1].cache

\* ------------------------------------------------------------------------
\* C23
\* ------------------------------------------------------------------------
\* The dish names of a week and of a file
WeekNames(week) ==
    UNION {{day.dishes[j].name : j \in DOMAIN day.dishes} : day \in Range(week.days)}

FileNames(file) ==
    CASE file.name = "all.json" ->
             UNION {UNION {WeekNames(week) : week \in Range(canteen.weeks)} :
                       canteen \in Range(file.data.canteens)}
      [] file.name = "combined.json" ->
             UNION {WeekNames(week) : week \in Range(file.data.weeks)}
      [] OTHER -> IF "days" \in DOMAIN file.data THEN WeekNames(file.data) ELSE {}

\* No text is sent to the service twice.
SentOnce ==
    \A k, l \in DOMAIN tr_sent : k # l => tr_sent[k] \cap tr_sent[l] = {}

\* A step sends no text that is in the cache and leaves every cached
\* translation as it is; a call of translate_file on a file whose names are
\* all in the cache sends nothing.
CachedKept ==
    /\ \A text \in DOMAIN tr_cache :
          /\ text \in DOMAIN tr_cache' /\ tr_cache'[text] = tr_cache[text]
          /\ \A k \in (Len(tr_sent) + 1)..Len(tr_sent') : text \notin tr_sent'[k]
    /\ (tr_last = <<>> /\ tr_last' # <<>> /\ FileNames(tr_last'[1].input) \subseteq DOMAIN tr_cache)
          => tr_sent' = tr_sent

\* C23: a name that is in the cache is never sent to the translation service
\* and its cached translation is never overwritten, over any sequence of
\* prefetch, translate and translate_file calls and in translate.main; when
\* every dish name of a file is in the cache, translate_file makes no call to
\* the service.
C23_CachedNeverSent == []SentOnce /\ [][CachedKept]_vars

\* translate_file has written a file of both names, both from the cache, after
\* an earlier call had sent a text to the service, and has sent nothing itself
C23_Witness ==
    /\ FileTranslated
    /\ FileNames(tr_last[1].input) = {"Suppe", "Salat"}
    /\ FileNames(tr_last[1].input) \subseteq DOMAIN tr_last[1].cache
    /\ tr_last[1].sent > 0
    /\ Len(tr_sent) = tr_last[1].sent

\* ------------------------------------------------------------------------
\* C24
\* ------------------------------------------------------------------------
\* C24: unless --no-cache is given, translate.main always updates the cache on
\* disk: when it has ended, also after the translation of a file has failed,
\* the cache file holds every translation obtained in the run.
C24_CacheAlwaysSaved ==
    (tr_pc \in {"main_exited", "main_raised"} /\ ~tr_input.no_cache) =>
        tr_disk = <<tr_cache>>

\* ------------------------------------------------------------------------
\* C25
\* ------------------------------------------------------------------------
\* The text of a holiday: every cell is empty or "Feiertag", the main column
\* holds "Feiertag", and the soup column holds it at most once.
HolidayTexts ==
    {day \in SeqsUpTo({PdfLine(soup, mains) : soup, mains \in {<<>>, Feiertag}}, MaxDayLines) :
        /\ \E i \in DOMAIN day : day[i] \in {PdfLine(soup, Feiertag) : soup \in {<<>>, Feiertag}}
        /\ Cardinality({i \in DOMAIN day :
                           day[i] \in {PdfLine(Feiertag, mains) : mains \in {<<>>, Feiertag}}}) <= 1}

\* get_menus has returned the menus of the seven days of week 4 of 2022.
PdfReturned ==
    /\ r_parser = "MedizinerMensaMenuParser" /\ r_pc = "returned" /\ r_result # <<>>
    /\ r_input.hrefs = <<PdfOfWeek4>>

\* the Menu get_menus returned for weekday position k
PdfMenu(k) == r_result[1][Some(get_date(2022, 4, k).date)]

ServedDays ==
    {i \in DOMAIN r_input.days : ~r_input.days[i].closed /\ r_input.days[i].fetch = "ok"}

\* The run of the JSON-API parser on a list of days has ended.
ApiEnded ==
    /\ r_parser = "MensaBildungscampusHeilbronnParser" /\ r_pc \in {"returned", "raised"}
    /\ r_input.fetch = "ok"

\* The Menu has one Dish per meal record, in the order of the records, with
\* the three prices and the category of the record and no label.
DishPerRecord(menu, meals) ==
    /\ Len(menu.dishes) = Len(meals)
    /\ \A j \in DOMAIN meals :
          /\ menu.dishes[j].name = meals[j].name
          /\ menu.dishes[j].prices.students.price_per_unit = <<meals[j].prices.students>>
          /\ menu.dishes[j].prices.staff.price_per_unit = <<meals[j].prices.employees>>
          /\ menu.dishes[j].prices.guests.price_per_unit = <<meals[j].prices.others>>
          /\ menu.dishes[j].dish_type = meals[j].category
          /\ menu.dishes[j].labels = {}

\* C26: the JSON-API parser returns a Menu for a date exactly when the day is
\* listed, not flagged closed and its meal list was fetched; the Menu has one
\* Dish per meal record, in record order, with the record's three prices, its
\* category and an empty label set.
C26_MenuPerServedDay ==
    ApiEnded =>
        /\ \A i \in ServedDays :
              /\ r_result # <<>>
              /\ Some(strptime_Ymd(r_input.days[i].date)) \in DOMAIN r_result[1]
              /\ DishPerRecord(r_result[1][Some(strptime_Ymd(r_input.days[i].date))],
                               r_input.days[i].meals)
        /\ r_result # <<>> =>
              \A key \in DOMAIN r_result[1] :
                  \E i \in ServedDays : key = Some(strptime_Ymd(r_input.days[i].date))

\* ------------------------------------------------------------------------
\* C27
\* ------------------------------------------------------------------------
\* The scan of the CSV files is in its loop.
CsvScanning == r_parser = "StraubingMensaMenuParser" /\ r_pc = "loop"

\* The weeks requested so far start at the current ISO week and go up by one,
\* beyond the last week of the year, so that no week is requested twice.
WeeksInOrder ==
    r_parser = "StraubingMensaMenuParser" =>
        /\ \A k \in DOMAIN r_log : r_log[k] = CurrentWeek(r_input.today) + k - 1
        /\ \A k, l \in DOMAIN r_log : r_log[k] = r_log[l] => k = l
        /\ r_pc = "loop" => r_i = CurrentWeek(r_input.today) + Len(r_log)

\* C27: the CSV fetch loop ends when the server answers, in the end, with a
\* failed fetch or a file dated before today - 7 days; it starts at the current
\* ISO week, requests a week number one greater in each iteration, without
\* wrapping at the end of the year, and requests no week twice.
C27_ScanEndsWeeksGoUp ==
    /\ []WeeksInOrder
    /\ CsvScanning ~> CsvEnded

\* A scan that started in week 52 of 2023 asked for the weeks 52, 53 and 54 and
\* ended at a failed fetch.
C27_Witness ==
    /\ CsvEnded /\ r_pc = "returned"
    /\ r_input.today = CsvYearEnd
    /\ r_log = <<52, 53, 54>>

\* ------------------------------------------------------------------------
\* C28
\* ------------------------------------------------------------------------
\* The labels the three marker strings of the dish resolve to, before the
\* meatless flag is applied
MarkerLabels ==
    _parse_label("StudentenwerkMenuParser", sw_block.zusatz[1])
        \cup _parse_label("StudentenwerkMenuParser", sw_block.allergene[1])
        \cup _parse_label("StudentenwerkMenuParser", sw_block.typ[1])

\* C28: in a self-service canteen a dish flagged "0" whose category is none of
\* Studitopf, Pizza, Beilagen is priced on the FISH base tier if and only if
\* its labels contain FISH, and then the flag gives it no MEAT label.
C28_FishTierIffFishLabel ==
    (/\ OneDish /\ SelfService
     /\ TheMeatless = "0"
     /\ TheCategory \notin {"Studitopf", "Pizza", "Beilagen"}) =>
        /\ BaseTier(TheDish) = SelfServiceBasePriceType.FISH <=> "FISH" \in TheDish.labels
        /\ "FISH" \in TheDish.labels =>
              ("MEAT" \in TheDish.labels => "MEAT" \in MarkerLabels)

\* ------------------------------------------------------------------------
\* C29
\* ------------------------------------------------------------------------
\* The number of dishes over the Menus of the given keys
RECURSIVE DishCount(_, _)
DishCount(menus, keys) ==
    IF keys = {} THEN 0
    ELSE LET key == CHOOSE k \in keys : TRUE
         IN Len(menus[key].dishes) + DishCount(menus, keys \ {key})

\* C29: parse_menu loses no row: the Menus it returns for a non-empty sequence
\* of rows hold as many dishes in total as there are rows, also when rows of
\* the same date are not adjacent.
C29_NoRowLost ==
    ParseMenuReturned =>
        DishCount(r_result[1], DOMAIN r_result[1]) = Len(r_input.rows)

\* ------------------------------------------------------------------------
\* C30
\* ------------------------------------------------------------------------
\* The classes of the registry that module menu_parser defines
RegisteredStrategies == RegistryNames \cap MenuParserModule

\* The strategies the for loop can choose for the canteen, over all orders of
\* iteration of the registry
ChosenOverOrders(canteen) ==
    {FirstSupporting(o, canteen) : o \in Orders(RegisteredStrategies)}

====
